---- MODULE Spec2Model ----
(***************************************************************************)
(* Ledger model of the millioner casino platform.                          *)
(*                                                                         *)
(* The store is the document database: the wallets collection, the         *)
(* transactions collection (the entry log) and the deposit_requests /      *)
(* withdrawals collections.  Every handler of the repository that changes  *)
(* a wallet balance is one action when its body is a single database       *)
(* transaction that reads what it writes, and several actions (a call in   *)
(* flight between them) when the code reads outside the transaction that   *)
(* writes.  A database transaction without reads is an atomic blind write. *)
(***************************************************************************)
EXTENDS Integers, Sequences, FiniteSets, TLC

-----------------------------------------------------------------------------
(* Bounds of the model *)

\* store-changing operations started in one behaviour
MaxOps == 3
\* calls in flight at once (a handler between its read and its write)
MaxCalls == 2
\* amounts are multiples of Denom, 0 .. MaxUnits * Denom
MaxUnits == 1
Denom == 25
\* deposit / withdrawal requests
MaxReqs == 1
MaxPending == 2
\* low-balance notifications counted
MaxAlerts == 2

(* Program constants *)
STARTING_BONUS == 100
MIN_DEPOSIT == 10
MAX_DEPOSIT == 10000
MIN_WITHDRAWAL == 20
MAX_WITHDRAWAL == 5000
DAILY_WITHDRAWAL_LIMIT == 10000
MAX_ADJUSTMENT == 1000000
MAX_TRANSFER == 10000
MAX_ADMIN_SEND == 50000
DEFAULT_MAX_BALANCE == 1000000
BET_MULTIPLIER == 2
\* config.maxRetryAttempts of both BalanceSync classes
maxRetryAttempts == 3

Users == {"u1", "u2"}
\* the user of the tab whose client instances the model follows
\* (window.walletSystem.userId of the tab the game runs in)
Player == "u1"
Amounts == {k * Denom : k \in 0..MaxUnits}
StartBalance == Denom
Procs == 1..MaxCalls
ReqIds == 1..MaxReqs

VARIABLES
    wallets,        \* wallets collection: user id -> wallet document
    transactions,   \* transactions collection, in commit order
    requests,       \* deposit_requests and withdrawals: request id -> document
    cache,          \* WalletSystem.balance of the user's tab
    calls,          \* handlers in flight, with what they read before writing
    now,            \* Date.now() as last observed
    nextId,         \* auto-generated document ids handed out so far
    last,           \* outcome of the last handler step
    nops,           \* store-changing operations started
    initial,        \* history: each wallet's balance before any entry
    applied,        \* history: signed amounts of the calls that reported success
    succ,           \* history: successful resolve calls per request
    game,           \* the game instance of Player's tab: isPlaying, currentBet
    returned,       \* newBalance in the result of the last WalletSystem call
    client,         \* the wallet client of Player's tab: fields of the instance
    authUsers       \* the uids that have a Firebase Auth account

vars == <<wallets, transactions, requests, cache, calls, now, nextId, last,
          nops, initial, applied, succ, game, returned, client, authUsers>>

store == <<wallets, transactions, requests>>

-----------------------------------------------------------------------------
(* Documents *)

NoWallet ==
    [exists |-> FALSE, balance |-> 0, status |-> "none",
     totalDeposited |-> 0, totalWithdrawn |-> 0, totalWon |-> 0,
     totalLost |-> 0, totalTransferred |-> 0, totalReceived |-> 0,
     version |-> 0]

NewWallet(bal, st) ==
    [exists |-> TRUE, balance |-> bal, status |-> st,
     totalDeposited |-> 0, totalWithdrawn |-> 0, totalWon |-> 0,
     totalLost |-> 0, totalTransferred |-> 0, totalReceived |-> 0,
     version |-> 0]

\* a wallet as BalanceSync._createUserWallet writes it, version: 1, once it
\* holds the given balance and status
CreateUserWallet(bal, st) ==
    [NewWallet(bal, st) EXCEPT !.version = 1]

NoRequest ==
    [exists |-> FALSE, kind |-> "none", userId |-> "none", amount |-> 0,
     status |-> "none"]

\* One document of the transactions collection.  change is the signed field
\* the code writes where it writes one (change, netChange); hasBal says
\* whether previousBalance / newBalance were written.
Entry(id, userId, type, subType, amount, change, hasBal, prev, new, txid, status, req) ==
    [id |-> id, userId |-> userId, type |-> type, subType |-> subType,
     amount |-> amount, change |-> change, hasBal |-> hasBal,
     previousBalance |-> prev, newBalance |-> new,
     transactionId |-> txid, status |-> status, requestId |-> req,
     adminId |-> "none"]

AutoId(n) == <<"auto", n>>

\* collection.doc(id).set(data): replaces the document with that id, or adds it
SetDoc(log, e) ==
    IF \E i \in 1..Len(log) : log[i].id = e.id
    THEN [i \in 1..Len(log) |-> IF log[i].id = e.id THEN e ELSE log[i]]
    ELSE Append(log, e)

\* The signed amount of an entry, the sign implied by its kind
Signed(e) ==
    CASE e.type \in {"deposit", "game_win", "receive", "transfer_in",
                     "admin_credit", "bonus"} -> e.amount
      [] e.type \in {"withdrawal", "game_bet", "send", "transfer_out"} -> 0 - e.amount
      [] e.type = "transfer" -> IF e.subType = "incoming" THEN e.amount ELSE 0 - e.amount
      [] e.type \in {"admin_adjustment", "WIN", "LOSS"} -> e.change
      [] OTHER -> 0

RECURSIVE SumSigned(_, _)
SumSigned(log, u) ==
    IF log = <<>> THEN 0
    ELSE (IF Head(log).userId = u THEN Signed(Head(log)) ELSE 0)
         + SumSigned(Tail(log), u)

\* reconcile(accountId): replay the entry log and compare with the stored balance
Drift(u) == wallets[u].balance - (initial[u] + SumSigned(transactions, u))

-----------------------------------------------------------------------------
(* Calls in flight *)

Idle ==
    [op |-> "idle", user |-> "none", to |-> "none", amount |-> 0,
     action |-> "none", req |-> 0, bal |-> 0, tot |-> 0, toBal |-> 0,
     toTot |-> 0, retryCount |-> 0, delay |-> 0]

FreeSlot(p) == calls[p].op = "idle" /\ \A q \in Procs : q < p => calls[q].op # "idle"

CanStart == nops < MaxOps

-----------------------------------------------------------------------------
\* the client instances of a tab as their constructors leave them: nobody
\* signed in, no snapshot subscription.  userId and walletUnsubscribe are the
\* WalletSystem's; syncUserId (_userId), unsubscribeBalance and balanceSubs
\* (the number of live onSnapshot subscriptions to the wallet document) are
\* the BalanceSync's; pending is localStorage's pending_transactions_{uid} of
\* the player, which outlives the instance; syncDebounce says that its
\* _balanceUpdateDebounce timer is set and wasLowBalance is _wasLowBalance.
\* balanceUpdateDebounce is the timer of the BalanceSync of
\* public/js/balance-sync.js, and pubUserId, pubUnsubscribeBalance and
\* pubBalanceSubs are its userId, its unsubscribeBalance and the number of
\* its live wallet subscriptions.  lowAlerts counts the calls of the low-balance
\* listeners since a check last found the balance at or above the threshold.
NewClient ==
    [userId |-> "none", walletUnsubscribe |-> FALSE,
     syncUserId |-> "none", unsubscribeBalance |-> FALSE, balanceSubs |-> 0,
     pending |-> << >>, syncDebounce |-> FALSE, wasLowBalance |-> FALSE,
     balanceUpdateDebounce |-> FALSE, lowAlerts |-> 0,
     pubUserId |-> "none", pubUnsubscribeBalance |-> FALSE,
     pubBalanceSubs |-> 0]

\* a low-balance notification more, counted up to MaxAlerts
Alerted(n) == IF n < MaxAlerts THEN n + 1 ELSE n

\* the variables other than the wallets, before any handler ran
InitRest ==
    /\ transactions = <<>>
    /\ requests = [r \in ReqIds |-> NoRequest]
    /\ cache = [u \in Users |-> wallets[u].balance]
    /\ calls = [p \in Procs |-> Idle]
    /\ now = 0
    /\ nextId = 0
    /\ last = "none"
    /\ nops = 0
    /\ initial = [u \in Users |-> wallets[u].balance]
    /\ authUsers = {u \in Users : wallets[u].exists}
    /\ applied = [u \in Users |-> 0]
    /\ succ = [r \in ReqIds |-> 0]
    /\ game = [isPlaying |-> FALSE, currentBet |-> 0]
    /\ returned = 0
    /\ client = NewClient

\* every user is without a wallet yet, or has an active or suspended one
Init ==
    /\ wallets \in [Users -> {NoWallet, CreateUserWallet(StartBalance, "active"),
                              CreateUserWallet(StartBalance, "suspended")}]
    /\ InitRest

\* as Init, for the handlers that never look at a wallet's status
InitActive ==
    /\ wallets \in [Users -> {NoWallet, CreateUserWallet(StartBalance, "active")}]
    /\ InitRest

\* a handler step that fails: nothing but the outcome changes
Fail(err) ==
    /\ last' = err
    /\ UNCHANGED <<wallets, transactions, requests, cache, calls, now, nextId,
                   nops, initial, authUsers, client, game, returned, applied, succ>>

\* bookkeeping of a step that commits a store change of a new operation
Committed ==
    /\ last' = "ok"
    /\ nops' = nops + 1

FreeReq(r) == ~requests[r].exists /\ \A q \in ReqIds : q < r => requests[q].exists

\* a handler has read the store and goes on to its write later
StartCall(rec) ==
    /\ CanStart
    /\ \E p \in Procs :
         /\ FreeSlot(p)
         /\ calls' = [calls EXCEPT ![p] = rec]
    /\ nops' = nops + 1
    /\ last' = "none"
    /\ UNCHANGED <<wallets, transactions, requests, cache, now, nextId,
                   initial, authUsers, client, game, returned, applied, succ>>

\* the handler in slot p returns
EndCall(p, outcome) ==
    /\ calls' = [calls EXCEPT ![p] = Idle]
    /\ last' = outcome

\* the end of a call whose transaction committed: await notifications.add()
\* inside the handler's try; it resolves and the call returns its result, or
\* it rejects and the catch throws HttpsError('internal')
Notified(p) ==
    \E outcome \in {"ok", "NotificationFailed"} : EndCall(p, outcome)

-----------------------------------------------------------------------------
(* js/wallet-system.js: class WalletSystem, one instance per signed-in tab *)

\* the wallet snapshot listener of setupWalletListeners
OnWalletSnapshot(u) ==
    /\ wallets[u].exists
    /\ cache[u] # wallets[u].balance
    /\ cache' = [cache EXCEPT ![u] = wallets[u].balance]
    /\ UNCHANGED <<wallets, transactions, requests, calls, now, nextId, last,
                   nops, initial, authUsers, client, game, returned, applied, succ>>

\* the result of a WalletSystem call, { success: true, newBalance:
\* this.balance + delta }: this.balance is read after the await of the
\* transaction, when the wallet listener has already set it to the committed
\* balance or has not yet
Returns(u, newBalance, delta) ==
    \E seen \in BOOLEAN :
        /\ cache' = IF seen THEN [cache EXCEPT ![u] = newBalance] ELSE cache
        /\ returned' = (IF seen THEN newBalance ELSE cache[u]) + delta

WsDeposit(u, a) ==
    \/ /\ a <= 0
       /\ Fail("InvalidAmount")
    \/ /\ a > 0
       /\ ~wallets[u].exists
       /\ Fail("WalletNotFound")
    \/ /\ a > 0
       /\ wallets[u].exists
       /\ CanStart
       /\ LET w == wallets[u]
              newBalance == w.balance + a
              id == AutoId(nextId + 1)
          IN /\ wallets' = [wallets EXCEPT ![u].balance = newBalance,
                                           ![u].totalDeposited = @ + a]
             /\ transactions' = Append(transactions,
                    Entry(id, u, "deposit", "credit_card", a, 0, TRUE,
                          w.balance, newBalance, id, "completed", 0))
             /\ Returns(u, newBalance, a)
       /\ nextId' = nextId + 1
       /\ applied' = [applied EXCEPT ![u] = @ + a]
       /\ Committed
       /\ UNCHANGED <<requests, calls, now, initial, authUsers, client, game, succ>>

\* a withdraw that records its rejection in the log
WsWithdrawLoggingFailure(u, a) ==
    /\ a > 0
    /\ a > cache[u]
    /\ transactions' = Append(transactions,
           Entry(AutoId(nextId + 1), u, "withdrawal", "bank_transfer", a, 0,
                 FALSE, 0, 0, AutoId(nextId + 1), "failed", 0))
    /\ nextId' = nextId + 1
    /\ last' = "InsufficientFunds"
    /\ CanStart
    /\ nops' = nops + 1
    /\ UNCHANGED <<wallets, requests, cache, calls, now, initial, authUsers, client, game, returned, applied, succ>>

WsWithdraw(u, a) ==
    \/ /\ a <= 0
       /\ Fail("InvalidAmount")
    \/ /\ a > 0
       /\ a > cache[u]
       /\ Fail("InsufficientFunds")
    \/ /\ a > 0
       /\ a <= cache[u]
       /\ wallets[u].exists
       /\ CanStart
       /\ \E r \in ReqIds :
            /\ FreeReq(r)
            /\ LET w == wallets[u]
                   newBalance == w.balance - a
                   id == AutoId(nextId + 1)
               IN /\ wallets' = [wallets EXCEPT ![u].balance = newBalance,
                                                ![u].totalWithdrawn = @ + a]
                  /\ transactions' = Append(transactions,
                         Entry(id, u, "withdrawal", "bank_transfer", a, 0, TRUE,
                               w.balance, newBalance, id, "pending", 0))
                  /\ requests' = [requests EXCEPT ![r] =
                         [exists |-> TRUE, kind |-> "withdrawal", userId |-> u,
                          amount |-> a, status |-> "pending"]]
       /\ nextId' = nextId + 1
       /\ applied' = [applied EXCEPT ![u] = @ - a]
       /\ Committed
       /\ UNCHANGED <<cache, calls, now, initial, authUsers, client, game, returned, succ>>

WsPlaceBet(u, a) ==
    \/ /\ a <= 0
       /\ Fail("InvalidAmount")
    \/ /\ a > 0
       /\ a > cache[u]
       /\ Fail("InsufficientFunds")
    \/ /\ a > 0
       /\ a <= cache[u]
       /\ wallets[u].exists
       /\ CanStart
       /\ LET w == wallets[u]
              newBalance == w.balance - a
              id == AutoId(nextId + 1)
          IN /\ wallets' = [wallets EXCEPT ![u].balance = newBalance,
                                           ![u].totalLost = @ + a]
             /\ transactions' = Append(transactions,
                    Entry(id, u, "game_bet", "slot", a, 0, TRUE,
                          w.balance, newBalance, id, "completed", 0))
             /\ Returns(u, newBalance, 0 - a)
       /\ nextId' = nextId + 1
       /\ applied' = [applied EXCEPT ![u] = @ - a]
       /\ Committed
       /\ UNCHANGED <<requests, calls, now, initial, authUsers, client, game, succ>>

WsCreditWinnings(u, a) ==
    \/ /\ a <= 0
       /\ Fail("InvalidAmount")
    \/ /\ a > 0
       /\ ~wallets[u].exists
       /\ Fail("WalletNotFound")
    \/ /\ a > 0
       /\ wallets[u].exists
       /\ CanStart
       /\ LET w == wallets[u]
              newBalance == w.balance + a
              id == AutoId(nextId + 1)
          IN /\ wallets' = [wallets EXCEPT ![u].balance = newBalance,
                                           ![u].totalWon = @ + a]
             /\ transactions' = Append(transactions,
                    Entry(id, u, "game_win", "slot", a, 0, TRUE,
                          w.balance, newBalance, id, "completed", 0))
             /\ Returns(u, newBalance, a)
       /\ nextId' = nextId + 1
       /\ applied' = [applied EXCEPT ![u] = @ + a]
       /\ Committed
       /\ UNCHANGED <<requests, calls, now, initial, authUsers, client, game, succ>>

WsSendMoney(u, v, a) ==
    \/ /\ a <= 0
       /\ Fail("InvalidAmount")
    \/ /\ a > 0
       /\ a > cache[u]
       /\ Fail("InsufficientFunds")
    \/ /\ a > 0
       /\ a <= cache[u]
       /\ ~wallets[v].exists
       /\ Fail("RecipientNotFound")
    \/ /\ a > 0
       /\ a <= cache[u]
       /\ wallets[v].exists
       /\ v = u
       /\ Fail("SelfTransfer")
    \/ /\ a > 0
       /\ a <= cache[u]
       /\ wallets[v].exists
       /\ v # u
       /\ wallets[u].exists
       /\ CanStart
       /\ LET senderData == wallets[u]
              recipientWallet == wallets[v]
              senderNewBalance == senderData.balance - a
              recipientNewBalance == recipientWallet.balance + a
              senderTx == AutoId(nextId + 1)
              recipientTx == AutoId(nextId + 2)
          IN /\ wallets' = [wallets EXCEPT ![u].balance = senderNewBalance,
                                           ![v].balance = recipientNewBalance]
             /\ transactions' = transactions \o
                    << Entry(senderTx, u, "send", "peer_transfer", a, 0, TRUE,
                             senderData.balance, senderNewBalance, senderTx,
                             "completed", 0),
                       Entry(recipientTx, v, "receive", "peer_transfer", a, 0, TRUE,
                             recipientWallet.balance, recipientNewBalance,
                             recipientTx, "completed", 0) >>
             /\ Returns(u, senderNewBalance, 0 - a)
       /\ nextId' = nextId + 2
       /\ applied' = [applied EXCEPT ![u] = @ - a, ![v] = @ + a]
       /\ Committed
       /\ UNCHANGED <<requests, calls, now, initial, authUsers, client, game, succ>>

\* loadUserWallet: the existence read that decides whether to create
LoadUserWallet(u) ==
    \/ /\ wallets[u].exists
       /\ cache[u] # wallets[u].balance
       /\ cache' = [cache EXCEPT ![u] = wallets[u].balance]
       /\ UNCHANGED <<wallets, transactions, requests, calls, now, nextId,
                      last, nops, initial, authUsers, client, game, returned, applied, succ>>
    \/ /\ ~wallets[u].exists
       /\ CanStart
       /\ \E p \in Procs :
            /\ FreeSlot(p)
            /\ calls' = [calls EXCEPT ![p] = [Idle EXCEPT !.op = "createNewWallet",
                                                           !.user = u]]
       /\ nops' = nops + 1
       /\ last' = "none"
       /\ UNCHANGED <<wallets, transactions, requests, cache, now, nextId,
                      initial, authUsers, client, game, returned, applied, succ>>

\* createNewWallet, first write: wallets/{uid}.set(walletData); walletData
\* carries no version field (version 0 stands for its absence)
CreateNewWalletSet(p) ==
    /\ calls[p].op = "createNewWallet"
    /\ wallets' = [wallets EXCEPT ![calls[p].user] =
                       NewWallet(STARTING_BONUS, "active")]
    /\ calls' = [calls EXCEPT ![p].op = "createTransaction"]
    /\ last' = "none"
    /\ UNCHANGED <<transactions, requests, cache, now, nextId, nops, initial, authUsers, client, game, returned,
                   applied, succ>>

\* createNewWallet, second write: createTransaction({type: 'bonus'}), whose
\* failure createTransaction catches and createNewWallet does not look at
CreateNewWalletBonus(p) ==
    /\ calls[p].op = "createTransaction"
    /\ LET u == calls[p].user
           id == AutoId(nextId + 1)
       IN /\ \/ /\ transactions' = Append(transactions,
                       Entry(id, u, "bonus", "none", STARTING_BONUS, 0, FALSE,
                             0, 0, id, "completed", 0))
                /\ nextId' = nextId + 1
             \/ UNCHANGED <<transactions, nextId>>
          /\ cache' = [cache EXCEPT ![u] = STARTING_BONUS]
    /\ calls' = [calls EXCEPT ![p] = Idle]
    /\ last' = "ok"
    /\ UNCHANGED <<wallets, requests, now, nops, initial, authUsers, client, game, returned, applied, succ>>

WalletSystemNext ==
    \/ \E u \in Users : OnWalletSnapshot(u)
    \/ \E u \in Users, a \in Amounts : WsDeposit(u, a)
    \/ \E u \in Users, a \in Amounts : WsWithdraw(u, a)
    \/ \E u \in Users, a \in Amounts : WsPlaceBet(u, a)
    \/ \E u \in Users, a \in Amounts : WsCreditWinnings(u, a)
    \/ \E u, v \in Users, a \in Amounts : WsSendMoney(u, v, a)
    \/ \E u \in Users : LoadUserWallet(u)
    \/ \E p \in Procs : CreateNewWalletSet(p)
    \/ \E p \in Procs : CreateNewWalletBonus(p)

SpecWallet == InitActive /\ [][WalletSystemNext]_vars

-----------------------------------------------------------------------------
(* js/games.js *)

\* placeBet, up to the balance check on the getDoc result
PlaceBetRead(u, a) ==
    \/ /\ ~wallets[u].exists
       /\ Fail("WalletNotFound")
    \/ /\ wallets[u].exists
       /\ wallets[u].balance < a
       /\ Fail("InsufficientFunds")
    \/ /\ wallets[u].exists
       /\ wallets[u].balance >= a
       /\ CanStart
       /\ \E p \in Procs :
            /\ FreeSlot(p)
            /\ calls' = [calls EXCEPT ![p] = [Idle EXCEPT !.op = "placeBet",
                                                           !.user = u,
                                                           !.amount = a]]
       /\ nops' = nops + 1
       /\ last' = "none"
       /\ UNCHANGED <<wallets, transactions, requests, cache, now, nextId,
                      initial, authUsers, client, game, returned, applied, succ>>

\* placeBet, the coin flip and updateDoc(walletRef, {balance: increment(change)})
PlaceBetUpdate(p) ==
    /\ calls[p].op = "placeBet"
    /\ \E isWin \in BOOLEAN :
         LET u == calls[p].user
             change == IF isWin THEN calls[p].amount ELSE 0 - calls[p].amount
         IN /\ wallets' = [wallets EXCEPT ![u].balance = @ + change]
            /\ applied' = [applied EXCEPT ![u] = @ + change]
    /\ calls' = [calls EXCEPT ![p] = Idle]
    /\ last' = "ok"
    /\ UNCHANGED <<transactions, requests, cache, now, nextId, nops, initial, authUsers, client, game, returned, succ>>

\* executeSecureBet: one transaction; the log document id is userId_Date.now()
ExecuteSecureBet(u, betAmount, isWin, tick) ==
    \/ /\ ~wallets[u].exists
       /\ Fail("WalletNotFound")
    \/ /\ wallets[u].exists
       /\ wallets[u].balance < betAmount
       /\ Fail("InsufficientFunds")
    \/ /\ wallets[u].exists
       /\ wallets[u].balance >= betAmount
       /\ CanStart
       /\ now' = now + tick
       /\ LET currentBalance == wallets[u].balance
              netChange == IF isWin THEN betAmount * (BET_MULTIPLIER - 1)
                                    ELSE 0 - betAmount
              newBalance == currentBalance + netChange
              id == <<u, now'>>
          IN /\ wallets' = [wallets EXCEPT ![u].balance = newBalance]
             /\ transactions' = SetDoc(transactions,
                    Entry(id, u, IF isWin THEN "WIN" ELSE "LOSS", "none",
                          betAmount, netChange, FALSE, 0, 0, id, "none", 0))
             /\ applied' = [applied EXCEPT ![u] = @ + netChange]
       /\ Committed
       /\ UNCHANGED <<requests, cache, calls, nextId, initial, authUsers, client, game, returned, succ>>

GamesNext ==
    \/ \E u \in Users, a \in Amounts : PlaceBetRead(u, a)
    \/ \E p \in Procs : PlaceBetUpdate(p)
    \/ \E u \in Users, a \in Amounts, isWin \in BOOLEAN, tick \in 0..1 :
           ExecuteSecureBet(u, a, isWin, tick)

SpecGames == InitActive /\ [][GamesNext]_vars

-----------------------------------------------------------------------------
(* functions/index.js, lines 472-1647: the handlers that read with plain   *)
(* get() calls and then write in a transaction that reads nothing          *)

\* transferToUser, up to the computation of the new balances
FnTransferRead(u, v, a) ==
    \/ /\ (a <= 0 \/ a > MAX_TRANSFER)
       /\ Fail("AmountOutOfBounds")
    \/ /\ a > 0 /\ a <= MAX_TRANSFER
       /\ u = v
       /\ Fail("SelfTransfer")
    \/ /\ a > 0 /\ a <= MAX_TRANSFER
       /\ u # v
       /\ (~wallets[u].exists \/ ~wallets[v].exists)
       /\ Fail("WalletNotFound")
    \/ /\ a > 0 /\ a <= MAX_TRANSFER
       /\ u # v
       /\ wallets[u].exists /\ wallets[v].exists
       /\ wallets[u].balance < a
       /\ Fail("InsufficientFunds")
    \/ /\ a > 0 /\ a <= MAX_TRANSFER
       /\ u # v
       /\ wallets[u].exists /\ wallets[v].exists
       /\ wallets[u].balance >= a
       /\ wallets[v].status # "active"
       /\ Fail("AccountNotActive")
    \/ /\ a > 0 /\ a <= MAX_TRANSFER
       /\ u # v
       /\ wallets[u].exists /\ wallets[v].exists
       /\ wallets[u].balance >= a
       /\ wallets[v].status = "active"
       /\ StartCall([Idle EXCEPT !.op = "transferToUser", !.user = u, !.to = v,
                                 !.amount = a,
                                 !.bal = wallets[u].balance,
                                 !.tot = wallets[u].totalTransferred,
                                 !.toBal = wallets[v].balance,
                                 !.toTot = wallets[v].totalReceived])

\* transferToUser, the write-only transaction
FnTransferCommit(p) ==
    /\ calls[p].op = "transferToUser"
    /\ LET c == calls[p]
           newFromBalance == c.bal - c.amount
           newToBalance == c.toBal + c.amount
           transactionId == AutoId(nextId + 1)
       IN /\ wallets' = [wallets EXCEPT
                  ![c.user].balance = newFromBalance,
                  ![c.user].totalTransferred = c.tot + c.amount,
                  ![c.to].balance = newToBalance,
                  ![c.to].totalReceived = c.toTot + c.amount]
          /\ transactions' = transactions \o
                 << Entry(<<"out", nextId + 1>>, c.user, "transfer_out", "none",
                          c.amount, 0, TRUE, c.bal, newFromBalance,
                          transactionId, "completed", 0),
                    Entry(<<"in", nextId + 1>>, c.to, "transfer_in", "none",
                          c.amount, 0, TRUE, c.toBal, newToBalance,
                          transactionId, "completed", 0) >>
          /\ applied' = [applied EXCEPT ![c.user] = @ - c.amount,
                                        ![c.to] = @ + c.amount]
    /\ nextId' = nextId + 1
    /\ Notified(p)
    /\ UNCHANGED <<requests, cache, now, nops, initial, authUsers, client, game, returned, succ>>

\* createDepositRequest
FnCreateDepositRequest(u, a) ==
    \/ /\ (a < MIN_DEPOSIT \/ a > MAX_DEPOSIT)
       /\ Fail("AmountOutOfBounds")
    \/ /\ a >= MIN_DEPOSIT /\ a <= MAX_DEPOSIT
       /\ ~wallets[u].exists
       /\ Fail("WalletNotFound")
    \/ /\ a >= MIN_DEPOSIT /\ a <= MAX_DEPOSIT
       /\ wallets[u].exists
       /\ CanStart
       /\ \E r \in ReqIds :
            /\ FreeReq(r)
            /\ requests' = [requests EXCEPT ![r] =
                   [exists |-> TRUE, kind |-> "deposit", userId |-> u,
                    amount |-> a, status |-> "pending"]]
            /\ transactions' = Append(transactions,
                   Entry(AutoId(nextId + 1), u, "deposit_request", "none", a, 0,
                         FALSE, 0, 0, AutoId(nextId + 1), "pending", r))
       /\ nextId' = nextId + 1
       /\ Committed
       /\ UNCHANGED <<wallets, cache, calls, now, initial, authUsers, client, game, returned, applied, succ>>

\* createWithdrawalRequest
FnCreateWithdrawalRequest(u, a) ==
    \/ /\ (a < MIN_WITHDRAWAL \/ a > MAX_WITHDRAWAL)
       /\ Fail("AmountOutOfBounds")
    \/ /\ a >= MIN_WITHDRAWAL /\ a <= MAX_WITHDRAWAL
       /\ ~wallets[u].exists
       /\ Fail("WalletNotFound")
    \/ /\ a >= MIN_WITHDRAWAL /\ a <= MAX_WITHDRAWAL
       /\ wallets[u].exists
       /\ wallets[u].balance < a
       /\ Fail("InsufficientFunds")
    \/ /\ a >= MIN_WITHDRAWAL /\ a <= MAX_WITHDRAWAL
       /\ wallets[u].exists
       /\ wallets[u].balance >= a
       /\ CanStart
       /\ \E r \in ReqIds :
            /\ FreeReq(r)
            /\ requests' = [requests EXCEPT ![r] =
                   [exists |-> TRUE, kind |-> "withdrawal", userId |-> u,
                    amount |-> a, status |-> "pending"]]
       /\ Committed
       /\ UNCHANGED <<wallets, transactions, cache, calls, now, nextId, initial, authUsers, client, game, returned,
                      applied, succ>>

\* processDeposit / processWithdrawal (lines 788 and 979), the reads: the
\* request, its pending check and, to approve, the wallet
FnProcessRead(kind, r, action) ==
    \/ /\ (~requests[r].exists \/ requests[r].kind # kind)
       /\ Fail("NotFound")
    \/ /\ requests[r].exists /\ requests[r].kind = kind
       /\ requests[r].status # "pending"
       /\ Fail("AlreadyProcessed")
    \/ /\ requests[r].exists /\ requests[r].kind = kind
       /\ requests[r].status = "pending"
       /\ action = "approve"
       /\ kind = "withdrawal"
       /\ wallets[requests[r].userId].balance < requests[r].amount
       /\ Fail("InsufficientFunds")
    \/ /\ requests[r].exists /\ requests[r].kind = kind
       /\ requests[r].status = "pending"
       /\ (action = "approve" /\ kind = "withdrawal"
             => wallets[requests[r].userId].balance >= requests[r].amount)
       /\ LET w == wallets[requests[r].userId]
          IN StartCall([Idle EXCEPT
                 !.op = IF kind = "deposit" THEN "processDeposit"
                                            ELSE "processWithdrawal",
                 !.user = requests[r].userId, !.amount = requests[r].amount,
                 !.action = action, !.req = r,
                 !.bal = IF action = "approve" THEN w.balance ELSE 0,
                 !.tot = IF action # "approve" THEN 0
                         ELSE IF kind = "deposit" THEN w.totalDeposited
                         ELSE w.totalWithdrawn])

\* processDeposit, the write: a write-only transaction to approve, a plain
\* update to reject
FnProcessDepositCommit(p) ==
    /\ calls[p].op = "processDeposit"
    /\ LET c == calls[p]
           newBalance == c.bal + c.amount
       IN \/ /\ c.action = "approve"
             /\ requests' = [requests EXCEPT ![c.req].status = "approved"]
             /\ wallets' = [wallets EXCEPT
                    ![c.user].balance = newBalance,
                    ![c.user].totalDeposited = c.tot + c.amount]
             /\ transactions' = Append(transactions,
                    Entry(AutoId(nextId + 1), c.user, "deposit", "none", c.amount,
                          0, TRUE, c.bal, newBalance, AutoId(nextId + 1),
                          "completed", c.req))
             /\ nextId' = nextId + 1
             /\ applied' = [applied EXCEPT ![c.user] = @ + c.amount]
          \/ /\ c.action = "reject"
             /\ requests' = [requests EXCEPT ![c.req].status = "rejected"]
             /\ UNCHANGED <<wallets, transactions, nextId, applied>>
    /\ succ' = [succ EXCEPT ![calls[p].req] = @ + 1]
    /\ Notified(p)
    /\ UNCHANGED <<cache, now, nops, initial, authUsers, client, game, returned>>

\* processWithdrawal, the write
FnProcessWithdrawalCommit(p) ==
    /\ calls[p].op = "processWithdrawal"
    /\ LET c == calls[p]
           newBalance == c.bal - c.amount
       IN \/ /\ c.action = "approve"
             /\ requests' = [requests EXCEPT ![c.req].status = "approved"]
             /\ wallets' = [wallets EXCEPT
                    ![c.user].balance = newBalance,
                    ![c.user].totalWithdrawn = c.tot + c.amount]
             /\ transactions' = Append(transactions,
                    Entry(AutoId(nextId + 1), c.user, "withdrawal", "none",
                          c.amount, 0, TRUE, c.bal, newBalance,
                          AutoId(nextId + 1), "completed", c.req))
             /\ nextId' = nextId + 1
             /\ applied' = [applied EXCEPT ![c.user] = @ - c.amount]
          \/ /\ c.action = "reject"
             /\ requests' = [requests EXCEPT ![c.req].status = "rejected"]
             /\ UNCHANGED <<wallets, transactions, nextId, applied>>
    /\ succ' = [succ EXCEPT ![calls[p].req] = @ + 1]
    /\ Notified(p)
    /\ UNCHANGED <<cache, now, nops, initial, authUsers, client, game, returned>>

\* adminAdjustBalance (line 1123), the read and the computation
FnAdminAdjustRead(u, a, action) ==
    \/ /\ (a <= 0 \/ a > MAX_ADJUSTMENT)
       /\ Fail("InvalidAmount")
    \/ /\ a > 0 /\ a <= MAX_ADJUSTMENT
       /\ ~wallets[u].exists
       /\ Fail("WalletNotFound")
    \/ /\ a > 0 /\ a <= MAX_ADJUSTMENT
       /\ wallets[u].exists
       /\ action = "subtract"
       /\ wallets[u].balance < a
       /\ Fail("InsufficientFunds")
    \/ /\ a > 0 /\ a <= MAX_ADJUSTMENT
       /\ wallets[u].exists
       /\ (action = "subtract" => wallets[u].balance >= a)
       /\ StartCall([Idle EXCEPT !.op = "adminAdjustBalance", !.user = u,
                                 !.amount = a, !.action = action,
                                 !.bal = wallets[u].balance])

\* the balance an adjustment leads to
AdjustedBalance(balance, a, action) ==
    CASE action = "add" -> balance + a
      [] action = "subtract" -> balance - a
      [] action = "set" -> a

\* adminAdjustBalance (line 1123), the write-only transaction
FnAdminAdjustCommit(p) ==
    /\ calls[p].op = "adminAdjustBalance"
    /\ LET c == calls[p]
           newBalance == AdjustedBalance(c.bal, c.amount, c.action)
           change == newBalance - c.bal
       IN /\ wallets' = [wallets EXCEPT ![c.user].balance = newBalance]
          /\ transactions' = Append(transactions,
                 Entry(AutoId(nextId + 1), c.user, "admin_adjustment", c.action,
                       IF change < 0 THEN 0 - change ELSE change, change, TRUE,
                       c.bal, newBalance, AutoId(nextId + 1), "completed", 0))
          /\ applied' = [applied EXCEPT ![c.user] = @ + change]
    /\ nextId' = nextId + 1
    /\ Notified(p)
    /\ UNCHANGED <<requests, cache, now, nops, initial, authUsers, client, game, returned, succ>>

\* adminSendToUser (line 1245), the read
FnAdminSendRead(u, a) ==
    \/ /\ (a <= 0 \/ a > MAX_ADMIN_SEND)
       /\ Fail("InvalidAmount")
    \/ /\ a > 0 /\ a <= MAX_ADMIN_SEND
       /\ ~wallets[u].exists
       /\ Fail("WalletNotFound")
    \/ /\ a > 0 /\ a <= MAX_ADMIN_SEND
       /\ wallets[u].exists
       /\ StartCall([Idle EXCEPT !.op = "adminSendToUser", !.user = u,
                                 !.amount = a,
                                 !.bal = wallets[u].balance,
                                 !.tot = wallets[u].totalReceived])

\* adminSendToUser (line 1245), the write-only transaction
FnAdminSendCommit(p) ==
    /\ calls[p].op = "adminSendToUser"
    /\ LET c == calls[p]
           newBalance == c.bal + c.amount
       IN /\ wallets' = [wallets EXCEPT ![c.user].balance = newBalance,
                                        ![c.user].totalReceived = c.tot + c.amount]
          /\ transactions' = Append(transactions,
                 Entry(AutoId(nextId + 1), c.user, "admin_credit", "none",
                       c.amount, 0, TRUE, c.bal, newBalance, AutoId(nextId + 1),
                       "completed", 0))
          /\ applied' = [applied EXCEPT ![c.user] = @ + c.amount]
    /\ nextId' = nextId + 1
    /\ Notified(p)
    /\ UNCHANGED <<requests, cache, now, nops, initial, authUsers, client, game, returned, succ>>

AdminActions == {"add", "subtract", "set"}
Decisions == {"approve", "reject"}

FnTransferNext ==
    \/ \E u, v \in Users, a \in Amounts : FnTransferRead(u, v, a)
    \/ \E p \in Procs : FnTransferCommit(p)

FnRequestNext ==
    \/ \E u \in Users, a \in Amounts : FnCreateDepositRequest(u, a)
    \/ \E u \in Users, a \in Amounts : FnCreateWithdrawalRequest(u, a)
    \/ \E r \in ReqIds, d \in Decisions : FnProcessRead("deposit", r, d)
    \/ \E r \in ReqIds, d \in Decisions : FnProcessRead("withdrawal", r, d)
    \/ \E p \in Procs : FnProcessDepositCommit(p)
    \/ \E p \in Procs : FnProcessWithdrawalCommit(p)

FnAdminNext ==
    \/ \E u \in Users, a \in Amounts, x \in AdminActions : FnAdminAdjustRead(u, a, x)
    \/ \E p \in Procs : FnAdminAdjustCommit(p)
    \/ \E u \in Users, a \in Amounts : FnAdminSendRead(u, a)
    \/ \E p \in Procs : FnAdminSendCommit(p)

FnNext == FnTransferNext \/ FnRequestNext \/ FnAdminNext

SpecFn == Init /\ [][FnNext]_vars

-----------------------------------------------------------------------------
(* functions/index.js, lines 1-470: the handlers marked FIXED *)

\* adminAdjustBalance (line 2): reads and writes in one transaction
FixedAdminAdjustBalance(u, a, action) ==
    \/ /\ (a <= 0 \/ a > MAX_ADJUSTMENT)
       /\ Fail("InvalidAmount")
    \/ /\ a > 0 /\ a <= MAX_ADJUSTMENT
       /\ ~wallets[u].exists
       /\ Fail("WalletNotFound")
    \/ /\ a > 0 /\ a <= MAX_ADJUSTMENT
       /\ wallets[u].exists
       /\ action = "subtract"
       /\ wallets[u].balance < a
       /\ Fail("InsufficientFunds")
    \/ /\ a > 0 /\ a <= MAX_ADJUSTMENT
       /\ wallets[u].exists
       /\ (action = "subtract" => wallets[u].balance >= a)
       /\ CanStart
       /\ LET walletData == wallets[u]
              newBalance == AdjustedBalance(walletData.balance, a, action)
              change == newBalance - walletData.balance
          IN /\ newBalance >= 0
             /\ newBalance <= DEFAULT_MAX_BALANCE
             /\ wallets' = [wallets EXCEPT ![u].balance = newBalance]
             /\ transactions' = Append(transactions,
                    Entry(AutoId(nextId + 1), u, "admin_adjustment", action,
                          IF change < 0 THEN 0 - change ELSE change, change, TRUE,
                          walletData.balance, newBalance, AutoId(nextId + 1),
                          "completed", 0))
             /\ applied' = [applied EXCEPT ![u] = @ + change]
       /\ nextId' = nextId + 1
       /\ Committed
       /\ UNCHANGED <<requests, cache, calls, now, initial, authUsers, client, game, returned, succ>>

\* processDeposit (line 153): reads and writes in one transaction
FixedProcessDeposit(r, action) ==
    \/ /\ (~requests[r].exists \/ requests[r].kind # "deposit")
       /\ Fail("NotFound")
    \/ /\ requests[r].exists /\ requests[r].kind = "deposit"
       /\ requests[r].status # "pending"
       /\ Fail("AlreadyProcessed")
    \/ /\ requests[r].exists /\ requests[r].kind = "deposit"
       /\ requests[r].status = "pending"
       /\ CanStart
       /\ LET requestData == requests[r]
              walletData == wallets[requestData.userId]
              newBalance == walletData.balance + requestData.amount
          IN \/ /\ action = "approve"
                /\ requests' = [requests EXCEPT ![r].status = "approved"]
                /\ wallets' = [wallets EXCEPT
                       ![requestData.userId].balance = newBalance,
                       ![requestData.userId].totalDeposited = @ + requestData.amount]
                /\ transactions' = Append(transactions,
                       Entry(AutoId(nextId + 1), requestData.userId, "deposit",
                             "none", requestData.amount, 0, TRUE,
                             walletData.balance, newBalance, AutoId(nextId + 1),
                             "completed", r))
                /\ nextId' = nextId + 1
                /\ applied' = [applied EXCEPT ![requestData.userId] =
                                                  @ + requestData.amount]
             \/ /\ action = "reject"
                /\ requests' = [requests EXCEPT ![r].status = "rejected"]
                /\ UNCHANGED <<wallets, transactions, nextId, applied>>
       /\ succ' = [succ EXCEPT ![r] = @ + 1]
       /\ Committed
       /\ UNCHANGED <<cache, calls, now, initial, authUsers, client, game, returned>>

\* processWithdrawal (line 318), the reads made before the transaction
FixedProcessWithdrawalRead(r, action) ==
    \/ /\ (~requests[r].exists \/ requests[r].kind # "withdrawal")
       /\ Fail("NotFound")
    \/ /\ requests[r].exists /\ requests[r].kind = "withdrawal"
       /\ requests[r].status # "pending"
       /\ Fail("AlreadyProcessed")
    \/ /\ requests[r].exists /\ requests[r].kind = "withdrawal"
       /\ requests[r].status = "pending"
       /\ StartCall([Idle EXCEPT !.op = "processWithdrawalTx",
                                 !.user = requests[r].userId,
                                 !.amount = requests[r].amount,
                                 !.action = action, !.req = r])

\* processWithdrawal (line 318), the transaction: it reads the wallet, not
\* the request
FixedProcessWithdrawalCommit(p) ==
    /\ calls[p].op = "processWithdrawalTx"
    /\ LET c == calls[p]
           walletData == wallets[c.user]
           newBalance == walletData.balance - c.amount
       IN \/ /\ c.action = "approve"
             /\ walletData.balance < c.amount
             /\ EndCall(p, "InsufficientFunds")
             /\ UNCHANGED <<wallets, transactions, requests, nextId, applied, succ>>
          \/ /\ c.action = "approve"
             /\ walletData.balance >= c.amount
             /\ requests' = [requests EXCEPT ![c.req].status = "approved"]
             /\ wallets' = [wallets EXCEPT
                    ![c.user].balance = newBalance,
                    ![c.user].totalWithdrawn = @ + c.amount]
             /\ transactions' = Append(transactions,
                    Entry(AutoId(nextId + 1), c.user, "withdrawal", "none",
                          c.amount, 0, TRUE, walletData.balance, newBalance,
                          AutoId(nextId + 1), "completed", c.req))
             /\ nextId' = nextId + 1
             /\ applied' = [applied EXCEPT ![c.user] = @ - c.amount]
             /\ succ' = [succ EXCEPT ![c.req] = @ + 1]
             /\ Notified(p)
          \/ /\ c.action = "reject"
             /\ requests' = [requests EXCEPT ![c.req].status = "rejected"]
             /\ succ' = [succ EXCEPT ![c.req] = @ + 1]
             /\ Notified(p)
             /\ UNCHANGED <<wallets, transactions, nextId, applied>>
    /\ UNCHANGED <<cache, now, nops, initial, authUsers, client, game, returned>>

FixedNext ==
    \/ \E u \in Users, a \in Amounts, x \in AdminActions :
           FixedAdminAdjustBalance(u, a, x)
    \/ \E r \in ReqIds, d \in Decisions : FixedProcessDeposit(r, d)
    \/ \E r \in ReqIds, d \in Decisions : FixedProcessWithdrawalRead(r, d)
    \/ \E p \in Procs : FixedProcessWithdrawalCommit(p)

-----------------------------------------------------------------------------
(* public/js/index.js: every handler is one transaction *)

\* transferToUser
PubTransferToUser(u, v, a) ==
    \/ /\ (a <= 0 \/ a > MAX_TRANSFER)
       /\ Fail("AmountOutOfBounds")
    \/ /\ a > 0 /\ a <= MAX_TRANSFER
       /\ u = v
       /\ Fail("SelfTransfer")
    \/ /\ a > 0 /\ a <= MAX_TRANSFER
       /\ u # v
       /\ (~wallets[u].exists \/ ~wallets[v].exists)
       /\ Fail("WalletNotFound")
    \/ /\ a > 0 /\ a <= MAX_TRANSFER
       /\ u # v
       /\ wallets[u].exists /\ wallets[v].exists
       /\ wallets[u].balance < a
       /\ Fail("InsufficientFunds")
    \/ /\ a > 0 /\ a <= MAX_TRANSFER
       /\ u # v
       /\ wallets[u].exists /\ wallets[v].exists
       /\ wallets[u].balance >= a
       /\ wallets[v].status # "active"
       /\ Fail("AccountNotActive")
    \/ /\ a > 0 /\ a <= MAX_TRANSFER
       /\ u # v
       /\ wallets[u].exists /\ wallets[v].exists
       /\ wallets[u].balance >= a
       /\ wallets[v].status = "active"
       /\ CanStart
       /\ LET fromWallet == wallets[u]
              toWallet == wallets[v]
              fee == 0
              netAmount == a - fee
              newFromBalance == fromWallet.balance - a
              newToBalance == toWallet.balance + netAmount
              transactionId == AutoId(nextId + 1)
          IN /\ wallets' = [wallets EXCEPT
                     ![u].balance = newFromBalance,
                     ![u].totalTransferred = @ + a,
                     ![v].balance = newToBalance,
                     ![v].totalReceived = @ + netAmount]
             /\ transactions' = transactions \o
                    << Entry(<<"out", nextId + 1>>, u, "transfer", "outgoing", a,
                             0, TRUE, fromWallet.balance, newFromBalance,
                             transactionId, "completed", 0),
                       Entry(<<"in", nextId + 1>>, v, "transfer", "incoming",
                             netAmount, 0, TRUE, toWallet.balance, newToBalance,
                             transactionId, "completed", 0) >>
             /\ applied' = [applied EXCEPT ![u] = @ - a, ![v] = @ + netAmount]
       /\ nextId' = nextId + 1
       /\ Committed
       /\ UNCHANGED <<requests, cache, calls, now, initial, authUsers, client, game, returned, succ>>

\* createDepositRequest
PubCreateDepositRequest(u, a) ==
    \/ /\ (a < MIN_DEPOSIT \/ a > MAX_DEPOSIT)
       /\ Fail("AmountOutOfBounds")
    \/ /\ a >= MIN_DEPOSIT /\ a <= MAX_DEPOSIT
       /\ ~wallets[u].exists
       /\ Fail("WalletNotFound")
    \/ /\ a >= MIN_DEPOSIT /\ a <= MAX_DEPOSIT
       /\ wallets[u].exists
       /\ CanStart
       /\ \E r \in ReqIds :
            /\ FreeReq(r)
            /\ requests' = [requests EXCEPT ![r] =
                   [exists |-> TRUE, kind |-> "deposit", userId |-> u,
                    amount |-> a, status |-> "pending"]]
            /\ transactions' = Append(transactions,
                   Entry(AutoId(nextId + 1), u, "deposit_request", "none", a, 0,
                         FALSE, 0, 0, AutoId(nextId + 1), "pending", r))
       /\ nextId' = nextId + 1
       /\ Committed
       /\ UNCHANGED <<wallets, cache, calls, now, initial, authUsers, client, game, returned, applied, succ>>

\* the approved withdrawals of the day, as createWithdrawalRequest sums them
RECURSIVE DailyTotalUpTo(_, _)
DailyTotalUpTo(u, n) ==
    IF n = 0 THEN 0
    ELSE (IF requests[n].exists /\ requests[n].kind = "withdrawal"
             /\ requests[n].userId = u /\ requests[n].status = "approved"
          THEN requests[n].amount ELSE 0) + DailyTotalUpTo(u, n - 1)

\* createWithdrawalRequest
PubCreateWithdrawalRequest(u, a) ==
    \/ /\ (a < MIN_WITHDRAWAL \/ a > MAX_WITHDRAWAL)
       /\ Fail("AmountOutOfBounds")
    \/ /\ a >= MIN_WITHDRAWAL /\ a <= MAX_WITHDRAWAL
       /\ ~wallets[u].exists
       /\ Fail("WalletNotFound")
    \/ /\ a >= MIN_WITHDRAWAL /\ a <= MAX_WITHDRAWAL
       /\ wallets[u].exists
       /\ wallets[u].balance < a
       /\ Fail("InsufficientFunds")
    \/ /\ a >= MIN_WITHDRAWAL /\ a <= MAX_WITHDRAWAL
       /\ wallets[u].exists
       /\ wallets[u].balance >= a
       /\ wallets[u].status # "active"
       /\ Fail("AccountNotActive")
    \/ /\ a >= MIN_WITHDRAWAL /\ a <= MAX_WITHDRAWAL
       /\ wallets[u].exists
       /\ wallets[u].balance >= a
       /\ wallets[u].status = "active"
       /\ DailyTotalUpTo(u, MaxReqs) + a <= DAILY_WITHDRAWAL_LIMIT
       /\ CanStart
       /\ \E r \in ReqIds :
            /\ FreeReq(r)
            /\ requests' = [requests EXCEPT ![r] =
                   [exists |-> TRUE, kind |-> "withdrawal", userId |-> u,
                    amount |-> a, status |-> "pending"]]
            /\ transactions' = Append(transactions,
                   Entry(AutoId(nextId + 1), u, "withdrawal_request", "none", a,
                         0, FALSE, 0, 0, AutoId(nextId + 1), "pending", r))
       /\ nextId' = nextId + 1
       /\ Committed
       /\ UNCHANGED <<wallets, cache, calls, now, initial, authUsers, client, game, returned, applied, succ>>

\* processDeposit and processWithdrawal: the approve branch calls
\* transaction.get(walletRef) after transaction.update(requestRef), which the
\* database client refuses (all reads before any write), so the transaction
\* is rolled back; the reject branch writes only
PubProcess(kind, r, action) ==
    \/ /\ (~requests[r].exists \/ requests[r].kind # kind)
       /\ Fail("NotFound")
    \/ /\ requests[r].exists /\ requests[r].kind = kind
       /\ requests[r].status # "pending"
       /\ Fail("AlreadyProcessed")
    \/ /\ requests[r].exists /\ requests[r].kind = kind
       /\ requests[r].status = "pending"
       /\ action = "approve"
       /\ Fail("ReadAfterWrite")
    \/ /\ requests[r].exists /\ requests[r].kind = kind
       /\ requests[r].status = "pending"
       /\ action = "reject"
       /\ CanStart
       /\ requests' = [requests EXCEPT ![r].status = "rejected"]
       /\ succ' = [succ EXCEPT ![r] = @ + 1]
       /\ Committed
       /\ UNCHANGED <<wallets, transactions, cache, calls, now, nextId, initial, authUsers, client, game, returned,
                      applied>>

\* adminSendToUser
PubAdminSendToUser(u, a) ==
    \/ /\ (a <= 0 \/ a > MAX_ADMIN_SEND)
       /\ Fail("InvalidAmount")
    \/ /\ a > 0 /\ a <= MAX_ADMIN_SEND
       /\ ~wallets[u].exists
       /\ Fail("WalletNotFound")
    \/ /\ a > 0 /\ a <= MAX_ADMIN_SEND
       /\ wallets[u].exists
       /\ wallets[u].status # "active"
       /\ Fail("AccountNotActive")
    \/ /\ a > 0 /\ a <= MAX_ADMIN_SEND
       /\ wallets[u].exists
       /\ wallets[u].status = "active"
       /\ CanStart
       /\ LET walletData == wallets[u]
              newBalance == walletData.balance + a
          IN /\ wallets' = [wallets EXCEPT ![u].balance = newBalance,
                                           ![u].totalReceived = @ + a]
             /\ transactions' = Append(transactions,
                    Entry(AutoId(nextId + 1), u, "admin_credit", "none", a, 0,
                          TRUE, walletData.balance, newBalance,
                          AutoId(nextId + 1), "completed", 0))
             /\ applied' = [applied EXCEPT ![u] = @ + a]
       /\ nextId' = nextId + 1
       /\ Committed
       /\ UNCHANGED <<requests, cache, calls, now, initial, authUsers, client, game, returned, succ>>

PubNext ==
    \/ \E u, v \in Users, a \in Amounts : PubTransferToUser(u, v, a)
    \/ \E u \in Users, a \in Amounts : PubCreateDepositRequest(u, a)
    \/ \E u \in Users, a \in Amounts : PubCreateWithdrawalRequest(u, a)
    \/ \E r \in ReqIds, d \in Decisions : PubProcess("deposit", r, d)
    \/ \E r \in ReqIds, d \in Decisions : PubProcess("withdrawal", r, d)
    \/ \E u \in Users, a \in Amounts : PubAdminSendToUser(u, a)

SpecPub == Init /\ [][PubNext]_vars

-----------------------------------------------------------------------------
(* js/index.js *)

\* context.auth of a call: the uid of the signed-in caller, or none
Anonymous == "anonymous"

AdminIds == {"fin", "mod", "off", "usr"}

Callers == AdminIds \cup {Anonymous}

\* the admins collection: an active finance admin, an active moderator, a
\* deactivated super admin, and a user without an admin record
admins ==
    [uid \in AdminIds |->
        CASE uid = "fin" -> [exists |-> TRUE, active |-> TRUE, role |-> "finance"]
          [] uid = "mod" -> [exists |-> TRUE, active |-> TRUE, role |-> "moderator"]
          [] uid = "off" -> [exists |-> TRUE, active |-> FALSE, role |-> "super_admin"]
          [] OTHER -> [exists |-> FALSE, active |-> FALSE, role |-> "none"]]

\* roleHierarchy[role] || 0
roleHierarchy(role) ==
    CASE role = "super_admin" -> 100
      [] role = "finance" -> 75
      [] role = "support" -> 50
      [] role = "moderator" -> 25
      [] OTHER -> 0

\* validateAdmin(context, requiredRole) of functions/index.js: "ok" where it
\* returns adminData, the error code where it throws
validateAdmin(caller, requiredRole) ==
    IF caller = Anonymous THEN "unauthenticated"
    ELSE IF ~admins[caller].exists \/ ~admins[caller].active
         THEN "permission-denied"
    ELSE IF roleHierarchy(admins[caller].role) < roleHierarchy(requiredRole)
         THEN "permission-denied"
    ELSE "ok"

\* the check adminAdjustBalance of js/index.js makes in its place: signed in,
\* with an admin record that is active
JsAdmin(caller) ==
    /\ caller # Anonymous
    /\ admins[caller].exists
    /\ admins[caller].active

\* adminAdjustBalance: one transaction; it bounds the amount neither below
\* nor above, and its entry has amount: amount and no change field
JsAdminAdjustBalance(caller, u, a, action) ==
    \/ /\ caller = Anonymous
       /\ Fail("unauthenticated")
    \/ /\ caller # Anonymous
       /\ ~(admins[caller].exists /\ admins[caller].active)
       /\ Fail("permission-denied")
    \/ /\ JsAdmin(caller)
       /\ a = 0
       /\ Fail("InvalidAmount")
    \/ /\ JsAdmin(caller)
       /\ a # 0
       /\ ~wallets[u].exists
       /\ Fail("WalletNotFound")
    \/ /\ JsAdmin(caller)
       /\ a # 0
       /\ wallets[u].exists
       /\ action = "subtract"
       /\ wallets[u].balance < a
       /\ Fail("InsufficientFunds")
    \/ /\ JsAdmin(caller)
       /\ a # 0
       /\ wallets[u].exists
       /\ (action = "subtract" => wallets[u].balance >= a)
       /\ CanStart
       /\ LET walletData == wallets[u]
              newBalance == AdjustedBalance(walletData.balance, a, action)
          IN /\ wallets' = [wallets EXCEPT ![u].balance = newBalance]
             /\ transactions' = Append(transactions,
                    [Entry(AutoId(nextId + 1), u, "admin_adjustment", action,
                           a, 0, TRUE, walletData.balance, newBalance,
                           AutoId(nextId + 1), "completed", 0)
                       EXCEPT !.adminId = caller])
             /\ applied' = [applied EXCEPT ![u] = @ + newBalance - walletData.balance]
       /\ nextId' = nextId + 1
       /\ Committed
       /\ UNCHANGED <<requests, cache, calls, now, initial, authUsers, client, game, returned, succ>>

-----------------------------------------------------------------------------
(* functions/src/admin/balance-management.js *)

\* adminTransferToUser: one transaction, which looks at the wallet's balance
\* only
BmAdminTransferToUser(u, a) ==
    \/ /\ a <= 0
       /\ Fail("InvalidAmount")
    \/ /\ a > 0
       /\ ~wallets[u].exists
       /\ Fail("WalletNotFound")
    \/ /\ a > 0
       /\ wallets[u].exists
       /\ CanStart
       /\ LET walletData == wallets[u]
              currentBalance == walletData.balance
              newBalance == currentBalance + a
          IN /\ wallets' = [wallets EXCEPT ![u].balance = newBalance,
                                           ![u].totalDeposited = @ + a]
             /\ transactions' = Append(transactions,
                    Entry(AutoId(nextId + 1), u, "admin_adjustment", "credit",
                          a, 0, TRUE, currentBalance, newBalance,
                          AutoId(nextId + 1), "completed", 0))
             /\ applied' = [applied EXCEPT ![u] = @ + a]
       /\ nextId' = nextId + 1
       /\ Committed
       /\ UNCHANGED <<requests, cache, calls, now, initial, authUsers, client, game, returned, succ>>

-----------------------------------------------------------------------------
(* public/js/balance-sync.js: two tabs of one user.  cache[u] is the
   currentBalance of the receiving tab; a message posted by the other tab is
   a slot of calls until the receiving tab's handler runs. *)

\* setupBalanceListener in the other tab: the snapshot sets its currentBalance
\* and broadcastBalanceUpdate posts {type: 'balance_update', userId, balance}
BroadcastBalanceUpdate(u) ==
    /\ wallets[u].exists
    /\ StartCall([Idle EXCEPT !.op = "balance_update", !.user = u,
                              !.bal = wallets[u].balance])

\* setupBalanceListener in the receiving tab: currentBalance = data.balance,
\* then the balanceUpdateDebounce timer is set anew (the model follows the
\* timer of the player's tab)
BsBalanceSnapshot(u) ==
    /\ wallets[u].exists
    /\ cache[u] # wallets[u].balance
    /\ cache' = [cache EXCEPT ![u] = wallets[u].balance]
    /\ client' = IF u = Player
                 THEN [client EXCEPT !.balanceUpdateDebounce = TRUE]
                 ELSE client
    /\ UNCHANGED <<wallets, transactions, requests, calls, now, nextId, last,
                   nops, initial, authUsers, game, returned, applied, succ>>

LOW_BALANCE_THRESHOLD == 10

\* the balanceUpdateDebounce timer of the player's tab fires:
\* notifyBalanceListeners, checkLowBalance, broadcastBalanceUpdate to the
\* other tabs
BsDebouncedUpdate ==
    /\ client.balanceUpdateDebounce
    /\ client' = [client EXCEPT
                     !.balanceUpdateDebounce = FALSE,
                     !.lowAlerts = IF cache[Player] < LOW_BALANCE_THRESHOLD
                                   THEN Alerted(@) ELSE 0]
    /\ UNCHANGED <<wallets, transactions, requests, cache, calls, now, nextId,
                   last, nops, initial, authUsers, game, returned, applied, succ>>

\* setupBalanceListener up to the onSnapshot call: rejected without a user;
\* else the existing subscription is cancelled and a new one is made
BsSetupBalanceListener(c) ==
    IF c.pubUserId = "none"
    THEN c
    ELSE [c EXCEPT !.pubBalanceSubs = (IF c.pubUnsubscribeBalance THEN @ - 1 ELSE @) + 1,
                   !.pubUnsubscribeBalance = TRUE]

\* onAuthStateChanged(user) of the player's tab: userId = user.uid, then
\* setupListenersWithRetry(0) up to its await
BsLogin ==
    /\ client.pubUserId = "none"
    /\ \E p \in Procs :
         /\ FreeSlot(p)
         /\ calls' = [calls EXCEPT ![p] = [Idle EXCEPT !.op = "setupListenersWithRetry",
                                                        !.user = Player]]
    /\ client' = BsSetupBalanceListener([client EXCEPT !.pubUserId = Player])
    /\ last' = "none"
    /\ UNCHANGED <<wallets, transactions, requests, cache, now, nextId, nops,
                   initial, authUsers, applied, succ, game, returned>>

\* setupListenersWithRetry(retryCount) from its await on.  The two listener
\* promises resolve (ok, possible only with a live subscription) or one
\* rejects.  A failure below maxRetryAttempts waits 1000 * (retryCount + 1) ms
\* and calls setupListenersWithRetry(retryCount + 1); the last failure
\* reports connection_error.
BsSetupResult(p) ==
    /\ calls[p].op = "setupListenersWithRetry"
    /\ \E ok \in BOOLEAN :
         /\ ok => client.pubUnsubscribeBalance
         /\ IF ~ok /\ calls[p].retryCount < maxRetryAttempts
            THEN /\ calls' = [calls EXCEPT
                               ![p].retryCount = @ + 1,
                               ![p].delay = 1000 * (calls[p].retryCount + 1)]
                 /\ client' = BsSetupBalanceListener(client)
                 /\ last' = "retry"
            ELSE /\ EndCall(p, IF ok THEN "ok" ELSE "connection_error")
                 /\ UNCHANGED client
    /\ UNCHANGED <<wallets, transactions, requests, cache, now, nextId, nops,
                   initial, authUsers, applied, succ, game, returned>>

\* onAuthStateChanged(null) of the player's tab: cleanup() (the timer, the
\* subscriptions, the listeners), userId = null, currentBalance = 0
BsLogout ==
    /\ client.pubUserId # "none"
    /\ client' = [client EXCEPT !.pubUserId = "none",
                                !.pubBalanceSubs = IF client.pubUnsubscribeBalance
                                                   THEN @ - 1 ELSE @,
                                !.pubUnsubscribeBalance = FALSE,
                                !.balanceUpdateDebounce = FALSE,
                                !.lowAlerts = 0]
    /\ cache' = [cache EXCEPT ![Player] = 0]
    /\ last' = "none"
    /\ UNCHANGED <<wallets, transactions, requests, calls, now, nextId, nops,
                   initial, authUsers, applied, succ, game, returned>>

\* setupCrossTabSync, broadcastChannel.onmessage in the receiving tab:
\* currentBalance = event.data.balance
BroadcastOnMessage(p) ==
    /\ calls[p].op = "balance_update"
    /\ cache' = [cache EXCEPT ![calls[p].user] = calls[p].bal]
    /\ calls' = [calls EXCEPT ![p] = Idle]
    /\ last' = "none"
    /\ UNCHANGED <<wallets, transactions, requests, now, nextId, nops, initial, authUsers, client, game, returned,
                   applied, succ>>

-----------------------------------------------------------------------------
(* game-manager.js: BaseGame and its subclasses, over window.walletSystem *)

MIN_BET == 1
MAX_BET == 1000

\* the multipliers a cashout is called with
Multipliers == {1, 2}

\* BaseGame.endSession
EndSession == [isPlaying |-> FALSE, currentBet |-> 0]

\* BaseGame.placeBet: validateBet, walletSystem.placeBet, and on success
\* isPlaying = true, currentBet = betAmount
GamePlaceBet(a) ==
    \/ /\ (a < MIN_BET \/ a > MAX_BET)
       /\ Fail("InvalidBet")
    \/ /\ a >= MIN_BET /\ a <= MAX_BET
       /\ a > cache[Player]
       /\ Fail("InsufficientFunds")
    \/ /\ a >= MIN_BET /\ a <= MAX_BET
       /\ a <= cache[Player]
       /\ wallets[Player].exists
       /\ CanStart
       /\ LET w == wallets[Player]
              newBalance == w.balance - a
              id == AutoId(nextId + 1)
          IN /\ wallets' = [wallets EXCEPT ![Player].balance = newBalance,
                                           ![Player].totalLost = @ + a]
             /\ transactions' = Append(transactions,
                    Entry(id, Player, "game_bet", "slot", a, 0, TRUE,
                          w.balance, newBalance, id, "completed", 0))
             /\ Returns(Player, newBalance, 0 - a)
       /\ nextId' = nextId + 1
       /\ applied' = [applied EXCEPT ![Player] = @ - a]
       /\ game' = [isPlaying |-> TRUE, currentBet |-> a]
       /\ Committed
       /\ UNCHANGED <<requests, calls, now, initial, authUsers, client, succ>>

\* MinesGame.cashout / CrashGame.cashout into BaseGame.creditWinnings, up to
\* the await of walletSystem.creditWinnings
GameCashout(multiplier) ==
    \/ /\ ~game.isPlaying
       /\ Fail("NoActiveSession")
    \/ /\ game.isPlaying
       /\ StartCall([Idle EXCEPT !.op = "creditWinnings", !.user = Player,
                                 !.amount = game.currentBet * multiplier])

\* BaseGame.creditWinnings from the await on: walletSystem.creditWinnings
\* commits, then endSession
GameCreditWinnings(p) ==
    /\ calls[p].op = "creditWinnings"
    /\ wallets[Player].exists
    /\ LET a == calls[p].amount
           w == wallets[Player]
           newBalance == w.balance + a
           id == AutoId(nextId + 1)
       IN /\ wallets' = [wallets EXCEPT ![Player].balance = newBalance,
                                        ![Player].totalWon = @ + a]
          /\ transactions' = Append(transactions,
                 Entry(id, Player, "game_win", "slot", a, 0, TRUE,
                       w.balance, newBalance, id, "completed", 0))
          /\ applied' = [applied EXCEPT ![Player] = @ + a]
          /\ Returns(Player, newBalance, a)
    /\ nextId' = nextId + 1
    /\ game' = EndSession
    /\ EndCall(p, "ok")
    /\ UNCHANGED <<requests, now, nops, initial, authUsers, client, succ>>

\* BaseGame.processLoss
GameProcessLoss ==
    \/ /\ ~game.isPlaying
       /\ Fail("NoActiveSession")
    \/ /\ game.isPlaying
       /\ game' = EndSession
       /\ last' = "ok"
       /\ UNCHANGED <<wallets, transactions, requests, cache, calls, now,
                      nextId, nops, initial, authUsers, client, applied, succ, returned>>

-----------------------------------------------------------------------------
(* js/wallet-system.js: WalletSystem.setupAuthListener, the tab's auth state.
   cache[Player] is this.balance of the tab. *)

\* onAuthStateChanged(user): this.userId = user.uid, then the handler awaits
\* loadUserWallet()
AuthLogin ==
    /\ client.userId = "none"
    /\ CanStart
    /\ \E p \in Procs :
         /\ FreeSlot(p)
         /\ calls' = [calls EXCEPT ![p] = [Idle EXCEPT !.op = "onAuthStateChanged",
                                                        !.user = Player]]
    /\ client' = [client EXCEPT !.userId = Player]
    /\ nops' = nops + 1
    /\ last' = "none"
    /\ UNCHANGED <<wallets, transactions, requests, cache, now, nextId,
                   initial, authUsers, applied, succ, game, returned>>

\* the login handler from the await on: loadUserWallet sets this.balance from
\* the document it read, then setupWalletListeners subscribes to
\* wallets/{this.userId}, which throws when this.userId is null by then
AuthLoginResume(p) ==
    /\ calls[p].op = "onAuthStateChanged"
    /\ wallets[Player].exists
    /\ cache' = [cache EXCEPT ![Player] = wallets[Player].balance]
    /\ client' = [client EXCEPT !.walletUnsubscribe = (client.userId # "none")]
    /\ EndCall(p, IF client.userId # "none" THEN "ok" ELSE "InvalidDocumentPath")
    /\ UNCHANGED <<wallets, transactions, requests, now, nextId, nops,
                   initial, authUsers, applied, succ, game, returned>>

\* onAuthStateChanged(null): cleanup(), userId = null, balance = 0
AuthLogout ==
    /\ client.userId # "none"
    /\ client' = [client EXCEPT !.userId = "none", !.walletUnsubscribe = FALSE]
    /\ cache' = [cache EXCEPT ![Player] = 0]
    /\ last' = "none"
    /\ UNCHANGED <<wallets, transactions, requests, calls, now, nextId, nops,
                   initial, authUsers, applied, succ, game, returned>>

\* setupWalletListeners, the wallet onSnapshot callback of the subscription
AuthWalletSnapshot ==
    /\ client.walletUnsubscribe
    /\ wallets[Player].exists
    /\ cache[Player] # wallets[Player].balance
    /\ cache' = [cache EXCEPT ![Player] = wallets[Player].balance]
    /\ UNCHANGED <<wallets, transactions, requests, calls, now, nextId, last,
                   nops, initial, authUsers, applied, succ, game, returned, client>>

-----------------------------------------------------------------------------
(* js/wallet-system.js: class BalanceSync, its listeners and its offline
   transactions.  cache[Player] is this._currentBalance of the tab. *)

\* cents
lowBalanceThreshold == 1000

TxTypes == {"deposit", "withdrawal"}

\* _setupBalanceListener without the cleanup of the existing listener
SetupBalanceListenerKeepsOld(c) ==
    IF c.syncUserId = "none"
    THEN c
    ELSE [c EXCEPT !.balanceSubs = IF @ < 2 THEN @ + 1 ELSE @,
                   !.unsubscribeBalance = TRUE]

\* _setupBalanceListener up to the promise it returns: nothing without a
\* user; else the existing subscription is cancelled and a new one is made
SetupBalanceListener(c) ==
    IF c.syncUserId = "none"
    THEN c
    ELSE [c EXCEPT !.balanceSubs = (IF c.unsubscribeBalance THEN @ - 1 ELSE @) + 1,
                   !.unsubscribeBalance = TRUE]

\* _processPendingTransactions: every stored transaction is handed to
\* _syncPendingTransaction, which only logs it, then the key is removed
ProcessPendingTransactions(c) ==
    IF c.syncUserId = "none" THEN c ELSE [c EXCEPT !.pending = << >>]

\* onAuthStateChanged(user): _userId = user.uid, _onUserAuthenticated up to
\* the await in _setupFirebaseListeners(0)
SyncLogin ==
    /\ client.syncUserId = "none"
    /\ \E p \in Procs :
         /\ FreeSlot(p)
         /\ calls' = [calls EXCEPT ![p] = [Idle EXCEPT !.op = "onUserAuthenticated",
                                                        !.user = Player]]
    /\ client' = SetupBalanceListener([client EXCEPT !.syncUserId = Player])
    /\ last' = "none"
    /\ UNCHANGED <<wallets, transactions, requests, cache, now, nextId, nops,
                   initial, authUsers, applied, succ, game, returned>>

\* _setupFirebaseListeners(retryCount) from its await on.  The two listener
\* promises resolve (ok, possible only with a live subscription) or one of
\* them is false, rejects or times out.  A failure below maxRetryAttempts
\* waits 1000 * 2^retryCount ms (the call's delay) and calls
\* _setupFirebaseListeners(retryCount + 1); the last failure
\* reports LISTENER_SETUP_FAILED.  When the setup is over, in either way,
\* _onUserAuthenticated goes on to _processPendingTransactions (the IndexedDB
\* cache of _loadCachedData is not open: this._db is null).
SyncSetupResult(p) ==
    /\ calls[p].op = "onUserAuthenticated"
    /\ \E ok \in BOOLEAN :
         /\ ok => client.unsubscribeBalance
         /\ IF ~ok /\ calls[p].retryCount < maxRetryAttempts
            THEN /\ calls' = [calls EXCEPT
                               ![p].retryCount = @ + 1,
                               ![p].delay = 1000 * 2 ^ calls[p].retryCount]
                 /\ client' = SetupBalanceListener(client)
                 /\ last' = "retry"
            ELSE /\ client' = ProcessPendingTransactions(client)
                 /\ EndCall(p, IF ok THEN "ok" ELSE "LISTENER_SETUP_FAILED")
    /\ UNCHANGED <<wallets, transactions, requests, cache, now, nextId, nops,
                   initial, authUsers, applied, succ, game, returned>>

\* onAuthStateChanged(null): _onUserLoggedOut, that is _cleanup and the reset
\* of the state
SyncLogout ==
    /\ client.syncUserId # "none"
    /\ client' = [client EXCEPT !.syncUserId = "none",
                                !.balanceSubs = IF client.unsubscribeBalance
                                                THEN @ - 1 ELSE @,
                                !.unsubscribeBalance = FALSE,
                                !.syncDebounce = FALSE,
                                !.wasLowBalance = FALSE,
                                !.lowAlerts = 0]
    /\ cache' = [cache EXCEPT ![Player] = 0]
    /\ last' = "none"
    /\ UNCHANGED <<wallets, transactions, requests, calls, now, nextId, nops,
                   initial, authUsers, applied, succ, game, returned>>

\* the wallet onSnapshot callback of _setupBalanceListener: a missing
\* document is created by _createUserWallet, else _currentBalance is the
\* document's balance; then _debounceBalanceUpdate sets the timer anew
SyncBalanceSnapshot ==
    /\ client.unsubscribeBalance
    /\ IF wallets[Player].exists
       THEN /\ cache' = [cache EXCEPT ![Player] = wallets[Player].balance]
            /\ UNCHANGED wallets
       ELSE /\ wallets' = [wallets EXCEPT ![Player] = CreateUserWallet(0, "active")]
            /\ cache' = [cache EXCEPT ![Player] = 0]
    /\ client' = [client EXCEPT !.syncDebounce = TRUE]
    /\ last' = "none"
    /\ UNCHANGED <<transactions, requests, calls, now, nextId, nops,
                   initial, authUsers, applied, succ, game, returned>>

\* the timer of _debounceBalanceUpdate fires: _notifyBalanceListeners,
\* _checkLowBalance (the balance in cents against lowBalanceThreshold),
\* _broadcastBalanceUpdate to the other tabs
SyncDebouncedUpdate ==
    /\ client.syncDebounce
    /\ LET isLowNow == cache[Player] * 100 < lowBalanceThreshold
       IN client' = [client EXCEPT
                        !.syncDebounce = FALSE,
                        !.wasLowBalance = isLowNow,
                        !.lowAlerts = IF isLowNow /\ ~client.wasLowBalance
                                      THEN Alerted(@)
                                      ELSE IF isLowNow THEN @ ELSE 0]
    /\ last' = "none"
    /\ UNCHANGED <<wallets, transactions, requests, cache, calls, now, nextId,
                   nops, initial, authUsers, applied, succ, game, returned>>

\* executeTransaction(type, amount): the callable 'executeTransaction' it
\* calls is defined nowhere in functions/, so the call never succeeds; when
\* the error is 'unavailable' (or the browser is offline) the transaction is
\* kept by _storePendingTransaction, and the error is thrown in either case
SyncExecuteTransaction(type, a) ==
    \/ /\ client.syncUserId = "none"
       /\ Fail("USER_NOT_AUTHENTICATED")
    \/ /\ client.syncUserId # "none"
       /\ a <= 0
       /\ Fail("INVALID_AMOUNT")
    \/ /\ client.syncUserId # "none"
       /\ a > 0
       /\ type = "withdrawal"
       /\ cache[Player] < a
       /\ Fail("INSUFFICIENT_FUNDS")
    \/ /\ client.syncUserId # "none"
       /\ a > 0
       /\ type = "withdrawal" => cache[Player] >= a
       /\ Fail("not-found")
    \/ /\ client.syncUserId # "none"
       /\ a > 0
       /\ type = "withdrawal" => cache[Player] >= a
       /\ Len(client.pending) < MaxPending
       /\ client' = [client EXCEPT !.pending =
                        Append(@, [type |-> type, amountCents |-> a,
                                   status |-> "pending"])]
       /\ last' = "unavailable"
       /\ UNCHANGED <<wallets, transactions, requests, cache, calls, now,
                      nextId, nops, initial, authUsers, applied, succ, game, returned>>

-----------------------------------------------------------------------------
(* unnamed/part_001 (the same in part_011): registerUser.  A user stands for
   an e-mail address and the uid Firebase Auth gives it. *)

\* the document registerUser writes: profile, wallet: {balance: 1000,
\* currency} and metadata.  It has none of the top-level fields (balance,
\* status, the totals, version) that the wallet handlers read.
RegisteredWallet ==
    [NoWallet EXCEPT !.exists = TRUE]

\* the catch block of registerUser with userRecord set: deleteUser resolves,
\* or rejects and the rejection is swallowed
Rollback(p) ==
    /\ \E deleted \in BOOLEAN :
         authUsers' = IF deleted THEN authUsers \ {calls[p].user} ELSE authUsers
    /\ EndCall(p, "RegistrationFailure")

\* registerUser up to the await of getDoc: the password check,
\* createUserWithEmailAndPassword, sendEmailVerification
RegisterUser(u, weak) ==
    \/ /\ weak
       /\ Fail("auth/weak-password")
    \/ /\ ~weak
       /\ u \in authUsers
       /\ Fail("auth/email-already-in-use")
    \/ /\ ~weak
       /\ u \notin authUsers
       /\ CanStart
       /\ \E p \in Procs :
            /\ FreeSlot(p)
            /\ calls' = [calls EXCEPT ![p] = [Idle EXCEPT !.op = "registerUser",
                                                           !.user = u]]
       /\ authUsers' = authUsers \cup {u}
       /\ nops' = nops + 1
       /\ last' = "none"
       /\ UNCHANGED <<wallets, transactions, requests, cache, now, nextId,
                      initial, applied, succ, game, returned, client>>

\* getDoc(walletRef) returns: an existing wallet, or a failed read, throws
\* into the catch block; else the handler goes on to setDoc
RegisterGetDoc(p) ==
    /\ calls[p].op = "registerUser"
    /\ \E got \in BOOLEAN :
         IF got /\ ~wallets[calls[p].user].exists
         THEN /\ calls' = [calls EXCEPT ![p].op = "registerSetDoc"]
              /\ last' = "none"
              /\ UNCHANGED authUsers
         ELSE Rollback(p)
    /\ UNCHANGED <<wallets, transactions, requests, cache, now, nextId, nops,
                   initial, applied, succ, game, returned, client>>

\* setDoc(walletRef, {...}) returns: the document is written whole, or the
\* write fails and the catch block runs
RegisterSetDoc(p) ==
    /\ calls[p].op = "registerSetDoc"
    /\ \E written \in BOOLEAN :
         IF written
         THEN /\ wallets' = [wallets EXCEPT ![calls[p].user] = RegisteredWallet]
              /\ EndCall(p, "ok")
              /\ UNCHANGED authUsers
         ELSE /\ Rollback(p)
              /\ UNCHANGED wallets
    /\ UNCHANGED <<transactions, requests, cache, now, nextId, nops,
                   initial, applied, succ, game, returned, client>>

-----------------------------------------------------------------------------
(* Specifications by handler family *)

\* the credits: deposit, creditWinnings, adminSendToUser of both files,
\* adminTransferToUser and the approval of deposit requests
CreditNext ==
    \/ \E u \in Users, a \in Amounts : WsDeposit(u, a)
    \/ \E u \in Users, a \in Amounts : WsCreditWinnings(u, a)
    \/ \E u \in Users, a \in Amounts : PubAdminSendToUser(u, a)
    \/ \E u \in Users, a \in Amounts : BmAdminTransferToUser(u, a)
    \/ \E u \in Users, a \in Amounts : FnAdminSendRead(u, a)
    \/ \E p \in Procs : FnAdminSendCommit(p)
    \/ \E u \in Users, a \in Amounts : FnCreateDepositRequest(u, a)
    \/ \E r \in ReqIds, d \in Decisions : FixedProcessDeposit(r, d)

SpecCredit == Init /\ [][CreditNext]_vars

\* the transfers of public/js/index.js and of the wallet page
TransferNext ==
    \/ \E u, v \in Users, a \in Amounts : PubTransferToUser(u, v, a)
    \/ \E u, v \in Users, a \in Amounts : WsSendMoney(u, v, a)
    \/ \E u \in Users : OnWalletSnapshot(u)

SpecTransfer == Init /\ [][TransferNext]_vars

\* concurrent calls of transferToUser of functions/index.js
SpecFnTransfer == Init /\ [][FnTransferNext]_vars

\* the deposit and withdrawal requests, resolved by the handlers of
\* functions/index.js lines 1-470
RequestNext ==
    \/ \E u \in Users, a \in Amounts : FnCreateDepositRequest(u, a)
    \/ \E u \in Users, a \in Amounts : FnCreateWithdrawalRequest(u, a)
    \/ FixedNext

SpecRequests == Init /\ [][RequestNext]_vars

\* the WalletSystem operations that return a newBalance, with the wallet
\* listener
WsResultNext ==
    \/ \E u \in Users : OnWalletSnapshot(u)
    \/ \E u \in Users, a \in Amounts : WsDeposit(u, a)
    \/ \E u \in Users, a \in Amounts : WsPlaceBet(u, a)
    \/ \E u \in Users, a \in Amounts : WsCreditWinnings(u, a)
    \/ \E u, v \in Users, a \in Amounts : WsSendMoney(u, v, a)

SpecWsResult == InitActive /\ [][WsResultNext]_vars

\* the withdrawals user u1 created today through createWithdrawalRequest of
\* functions/index.js (line 918), which accepts each of them: it compares the
\* amount with the balance and never reads DAILY_WITHDRAWAL_LIMIT
PendingToday ==
    << MAX_WITHDRAWAL, MAX_WITHDRAWAL, MAX_WITHDRAWAL, MIN_WITHDRAWAL >>

\* the request ids of SpecDaily: the pending withdrawals and an unused id
DailyReqIds == 1..(Len(PendingToday) + 1)

\* u1 holds the daily limit and a little more, the requests are pending
InitDaily ==
    /\ wallets = [u \in Users |->
                    IF u = "u1"
                    THEN CreateUserWallet(DAILY_WITHDRAWAL_LIMIT + MIN_WITHDRAWAL,
                                          "active")
                    ELSE NoWallet]
    /\ transactions = <<>>
    /\ requests = [r \in DailyReqIds |->
                     IF r <= Len(PendingToday)
                     THEN [exists |-> TRUE, kind |-> "withdrawal",
                           userId |-> "u1", amount |-> PendingToday[r],
                           status |-> "pending"]
                     ELSE NoRequest]
    /\ cache = [u \in Users |-> wallets[u].balance]
    /\ calls = [p \in Procs |-> Idle]
    /\ now = 0
    /\ nextId = 0
    /\ last = "none"
    /\ nops = 0
    /\ initial = [u \in Users |-> wallets[u].balance]
    /\ authUsers = {u \in Users : wallets[u].exists}
    /\ applied = [u \in Users |-> 0]
    /\ succ = [r \in DailyReqIds |-> 0]
    /\ game = [isPlaying |-> FALSE, currentBet |-> 0]
    /\ returned = 0
    /\ client = NewClient

\* the admin processes the day's withdrawal requests
DailyNext ==
    \/ \E r \in DailyReqIds, x \in Decisions : FixedProcessWithdrawalRead(r, x)
    \/ \E p \in Procs : FixedProcessWithdrawalCommit(p)

SpecDaily == InitDaily /\ [][DailyNext]_vars

\* the tab before anyone signed in: the player has a wallet, the client
\* instance is as constructed, with balance 0
InitAuth ==
    /\ wallets \in [Users -> {NoWallet, CreateUserWallet(StartBalance, "active")}]
    /\ wallets[Player].exists
    /\ transactions = <<>>
    /\ requests = [r \in ReqIds |-> NoRequest]
    /\ cache = [u \in Users |-> IF u = Player THEN 0 ELSE wallets[u].balance]
    /\ calls = [p \in Procs |-> Idle]
    /\ now = 0
    /\ nextId = 0
    /\ last = "none"
    /\ nops = 0
    /\ initial = [u \in Users |-> wallets[u].balance]
    /\ authUsers = {u \in Users : wallets[u].exists}
    /\ applied = [u \in Users |-> 0]
    /\ succ = [r \in ReqIds |-> 0]
    /\ game = [isPlaying |-> FALSE, currentBet |-> 0]
    /\ returned = 0
    /\ client = NewClient

\* the player signs in and out of a tab while an admin credits the wallet
AuthNext ==
    \/ AuthLogin
    \/ \E p \in Procs : AuthLoginResume(p)
    \/ AuthLogout
    \/ AuthWalletSnapshot
    \/ \E u \in Users, a \in Amounts : BmAdminTransferToUser(u, a)

SpecAuth == InitAuth /\ [][AuthNext]_vars

\* the tab before anyone signed in: the BalanceSync instance is as
\* constructed, with balance 0
InitSync ==
    /\ wallets \in [Users -> {NoWallet, CreateUserWallet(StartBalance, "active")}]
    /\ transactions = <<>>
    /\ requests = [r \in ReqIds |-> NoRequest]
    /\ cache = [u \in Users |-> IF u = Player THEN 0 ELSE wallets[u].balance]
    /\ calls = [p \in Procs |-> Idle]
    /\ now = 0
    /\ nextId = 0
    /\ last = "none"
    /\ nops = 0
    /\ initial = [u \in Users |-> wallets[u].balance]
    /\ authUsers = {u \in Users : wallets[u].exists}
    /\ applied = [u \in Users |-> 0]
    /\ succ = [r \in ReqIds |-> 0]
    /\ game = [isPlaying |-> FALSE, currentBet |-> 0]
    /\ returned = 0
    /\ client = NewClient

\* the player signs in and out of a tab and starts transactions while the
\* backend comes and goes
PendingNext ==
    \/ SyncLogin
    \/ \E p \in Procs : SyncSetupResult(p)
    \/ SyncLogout
    \/ SyncBalanceSnapshot
    \/ SyncDebouncedUpdate
    \/ \E type \in TxTypes, a \in Amounts : SyncExecuteTransaction(type, a)

SpecPending == InitSync /\ [][PendingNext]_vars

\* credits that leave a balance under the low-balance threshold, or take it
\* over
SmallAmounts == {0, 4, 12}

\* the player's tab is open on an empty wallet
InitLow ==
    /\ wallets = [u \in Users |-> IF u = Player
                                  THEN CreateUserWallet(0, "active")
                                  ELSE NoWallet]
    /\ transactions = <<>>
    /\ requests = [r \in ReqIds |-> NoRequest]
    /\ cache = [u \in Users |-> 0]
    /\ calls = [p \in Procs |-> Idle]
    /\ now = 0
    /\ nextId = 0
    /\ last = "none"
    /\ nops = 0
    /\ initial = [u \in Users |-> wallets[u].balance]
    /\ authUsers = {u \in Users : wallets[u].exists}
    /\ applied = [u \in Users |-> 0]
    /\ succ = [r \in ReqIds |-> 0]
    /\ game = [isPlaying |-> FALSE, currentBet |-> 0]
    /\ returned = 0
    /\ client = NewClient

\* an admin credits the wallet in small steps while the player's tab follows
\* the balance
LowBalanceNext ==
    \/ \E u \in Users, a \in SmallAmounts : BmAdminTransferToUser(u, a)
    \/ \E u \in Users : BsBalanceSnapshot(u)
    \/ BsDebouncedUpdate

SpecLowBalance == InitLow /\ [][LowBalanceNext]_vars

\* people register while the tab of a signed-in user loads its wallet
RegisterNext ==
    \/ \E u \in Users, weak \in BOOLEAN : RegisterUser(u, weak)
    \/ \E p \in Procs : RegisterGetDoc(p)
    \/ \E p \in Procs : RegisterSetDoc(p)
    \/ \E u \in authUsers : LoadUserWallet(u)
    \/ \E p \in Procs : CreateNewWalletSet(p)
    \/ \E p \in Procs : CreateNewWalletBonus(p)

SpecRegister == Init /\ [][RegisterNext]_vars

\* the player signs in and out of a tab of either client while the listener
\* setups succeed and fail
ListenerNext ==
    \/ SyncLogin
    \/ \E p \in Procs : SyncSetupResult(p)
    \/ SyncLogout
    \/ SyncBalanceSnapshot
    \/ BsLogin
    \/ \E p \in Procs : BsSetupResult(p)
    \/ BsLogout

SpecListeners == InitSync /\ [][ListenerNext]_vars

\* the debits that can fail for insufficient funds
DebitNext ==
    \/ \E u \in Users : OnWalletSnapshot(u)
    \/ \E u \in Users, a \in Amounts : WsWithdraw(u, a)
    \/ \E u \in Users, a \in Amounts : WsPlaceBet(u, a)
    \/ \E u, v \in Users, a \in Amounts : PubTransferToUser(u, v, a)
    \/ \E u \in Users, a \in Amounts :
           FixedAdminAdjustBalance(u, a, "subtract")

SpecDebit == Init /\ [][DebitNext]_vars

\* a client issues a bet or a transfer; the call record stands for the one
\* logical request, which the client sends again after a lost response or a
\* second click
ClientCall(kind, u, v, a) ==
    /\ a > 0
    /\ \E p \in Procs :
         /\ FreeSlot(p)
         /\ calls' = [calls EXCEPT ![p] = [Idle EXCEPT !.op = kind, !.user = u,
                                                        !.to = v, !.amount = a]]
    /\ last' = "none"
    /\ UNCHANGED <<wallets, transactions, requests, cache, now, nextId, nops,
                   initial, authUsers, client, game, returned, applied, succ>>

\* the server runs executeSecureBet for the request of slot p, each time the
\* request arrives
DeliverBet(p) ==
    /\ calls[p].op = "clientBet"
    /\ \E isWin \in BOOLEAN, tick \in 0..1 :
         ExecuteSecureBet(calls[p].user, calls[p].amount, isWin, tick)

\* the server runs transferToUser for the request of slot p, each time the
\* request arrives
DeliverTransfer(p) ==
    /\ calls[p].op = "clientTransfer"
    /\ PubTransferToUser(calls[p].user, calls[p].to, calls[p].amount)

ReplayNext ==
    \/ \E u \in Users, a \in Amounts : ClientCall("clientBet", u, u, a)
    \/ \E u, v \in Users, a \in Amounts : ClientCall("clientTransfer", u, v, a)
    \/ \E p \in Procs : DeliverBet(p)
    \/ \E p \in Procs : DeliverTransfer(p)

SpecReplay == Init /\ [][ReplayNext]_vars

\* the amounts an administrator may type: the small ones, the largest
\* adjustment allowed and the first one above it
AdminAmounts == Amounts \cup {MAX_ADJUSTMENT, MAX_ADJUSTMENT + 1}

\* adminAdjustBalance of js/index.js
JsAdjustNext ==
    \E caller \in Callers \ {"mod"}, u \in Users, a \in AdminAmounts,
       x \in AdminActions :
        JsAdminAdjustBalance(caller, u, a, x)

SpecJsAdjust == Init /\ [][JsAdjustNext]_vars

\* adminAdjustBalance of js/index.js called by every kind of caller, with the
\* amounts of the user operations
AdminGateNext ==
    \E caller \in Callers, u \in Users, a \in Amounts, x \in AdminActions :
        JsAdminAdjustBalance(caller, u, a, x)

SpecAdminGate == Init /\ [][AdminGateNext]_vars

\* two tabs of a user whose wallet receives admin credits
BroadcastNext ==
    \/ \E u \in Users : BroadcastBalanceUpdate(u)
    \/ \E u \in Users : BsBalanceSnapshot(u)
    \/ \E p \in Procs : BroadcastOnMessage(p)
    \/ \E u \in Users, a \in Amounts : PubAdminSendToUser(u, a)

SpecBroadcast == Init /\ [][BroadcastNext]_vars

\* one game instance in the player's tab
GameNext ==
    \/ \E a \in Amounts : GamePlaceBet(a)
    \/ \E m \in Multipliers : GameCashout(m)
    \/ \E p \in Procs : GameCreditWinnings(p)
    \/ GameProcessLoss
    \/ OnWalletSnapshot(Player)

SpecGame == InitActive /\ [][GameNext]_vars

\* the credits next to an adjustment that takes a balance to the limit:
\* adminAdjustBalance (line 2) with adminSendToUser and the deposit requests
LimitNext ==
    \/ \E u \in Users, a \in AdminAmounts, x \in AdminActions :
           FixedAdminAdjustBalance(u, a, x)
    \/ \E u \in Users, a \in Amounts : FnAdminSendRead(u, a)
    \/ \E p \in Procs : FnAdminSendCommit(p)
    \/ \E u \in Users, a \in Amounts : FnCreateDepositRequest(u, a)
    \/ \E r \in ReqIds, d \in Decisions : FixedProcessDeposit(r, d)

SpecLimits == Init /\ [][LimitNext]_vars

-----------------------------------------------------------------------------
(* Properties *)

\* the number of entries of the log that belong to wallet u
RECURSIVE CountFor(_, _)
CountFor(log, u) ==
    IF log = <<>> THEN 0
    ELSE (IF Head(log).userId = u THEN 1 ELSE 0) + CountFor(Tail(log), u)

\* the number of completed deposit or withdrawal entries written for request r
RECURSIVE CountResolved(_, _)
CountResolved(log, r) ==
    IF log = <<>> THEN 0
    ELSE (IF Head(log).requestId = r /\ Head(log).status = "completed"
             /\ Head(log).type \in {"deposit", "withdrawal"}
          THEN 1 ELSE 0) + CountResolved(Tail(log), r)

RECURSIVE SumOf(_, _)
SumOf(f, S) ==
    IF S = {} THEN 0
    ELSE LET u == CHOOSE x \in S : TRUE IN f[u] + SumOf(f, S \ {u})

TransferTypes == {"send", "receive", "transfer", "transfer_out", "transfer_in"}

\* C1: conservation.  Every wallet's stored balance equals its initial
\* balance plus the sum of the signed amounts of its entries in the
\* transactions log: a reconcile reports drift 0.
C1_Conservation ==
    \A u \in Users : wallets[u].exists => Drift(u) = 0

\* C2: no overdraft under concurrency.  Whatever the interleaving of debits
\* on a wallet, its balance is never negative.
C2_NoOverdraft ==
    \A u \in Users : wallets[u].balance >= 0

\* C3: no lost updates.  When credits to a wallet have reported success, its
\* balance has increased by exactly the sum of their amounts.
C3_NoLostCredit ==
    \A u \in Users :
        wallets[u].exists => wallets[u].balance - initial[u] = applied[u]

\* C4: transfer symmetry and atomicity.  A step that writes transfer entries
\* writes exactly two, one for the sender and one for the recipient, sharing
\* one transaction id, and moves exactly their amount from the sender's
\* balance to the recipient's.
C4_TransferSymmetry ==
    [][ (Len(transactions') > Len(transactions)
           /\ transactions'[Len(transactions')].type \in TransferTypes)
        => /\ Len(transactions') = Len(transactions) + 2
           /\ LET out == transactions'[Len(transactions) + 1]
                  inc == transactions'[Len(transactions) + 2]
              IN /\ out.userId # inc.userId
                 /\ out.transactionId = inc.transactionId
                 /\ out.amount = inc.amount
                 /\ wallets'[out.userId].balance
                        = wallets[out.userId].balance - out.amount
                 /\ wallets'[inc.userId].balance
                        = wallets[inc.userId].balance + inc.amount ]_vars

\* C5: concurrent transfers serialize.  The sum of all wallet balances is
\* unchanged, and each wallet's balance is its initial balance plus the
\* transfers in minus the transfers out of the calls that reported success.
C5_TransfersSerialize ==
    /\ SumOf([u \in Users |-> wallets[u].balance], Users) = SumOf(initial, Users)
    /\ \A u \in Users : wallets[u].balance = initial[u] + applied[u]

\* C6: every balance mutation is paired with its entry atomically.  In every
\* step, a wallet's balance changes if and only if exactly one entry of that
\* wallet is added to the log in the same step.
C6_EntryWithEveryMutation ==
    [][ \A u \in Users :
          (wallets'[u].balance # wallets[u].balance)
            <=> (CountFor(transactions', u) = CountFor(transactions, u) + 1) ]_vars

\* C7: a request is resolved at most once.  At most one resolve call succeeds
\* on a request, and its amount is credited or debited at most once.
C7_ResolvedAtMostOnce ==
    \A r \in ReqIds : succ[r] <= 1 /\ CountResolved(transactions, r) <= 1

\* C8: approved and rejected are terminal.  Once a request is approved or
\* rejected no step changes its status again.
C8_TerminalStatus ==
    [][ \A r \in ReqIds :
          requests[r].status \in {"approved", "rejected"}
            => requests'[r].status = requests[r].status ]_vars

\* C9: withdrawal approval re-checks funds at resolution time.  No step
\* approves a pending withdrawal request while the wallet balance is below
\* the request amount.
C9_ApprovalRechecksFunds ==
    [][ \A r \in ReqIds :
          (/\ requests[r].kind = "withdrawal"
           /\ requests[r].status = "pending"
           /\ wallets[requests[r].userId].balance < requests[r].amount)
            => requests'[r].status # "approved" ]_vars

\* C10: a failed debit leaves no trace.  A step that fails for insufficient
\* funds changes no wallet (balance and totals), writes no entry and touches
\* no request.
C10_FailedDebitLeavesNoTrace ==
    [][ last' = "InsufficientFunds" => UNCHANGED store ]_vars

\* a debit failed for insufficient funds on a wallet that earlier debits,
\* each with its entry, had emptied
C10_Witness ==
    /\ last = "InsufficientFunds"
    /\ transactions # <<>>
    /\ \E u \in Users : wallets[u].exists /\ wallets[u].balance < Denom

\* C11: idempotency.  A client request that is sent again produces one
\* balance change and one entry (two for a transfer), not more: the store
\* changes committed never outnumber the distinct client requests, and the
\* entries never outnumber what one commit per request writes.
C11_ReplayIsNoOp ==
    /\ nops <= Cardinality({p \in Procs : calls[p].op # "idle"})
    /\ Len(transactions)
         <= Cardinality({p \in Procs : calls[p].op = "clientBet"})
            + 2 * Cardinality({p \in Procs : calls[p].op = "clientTransfer"})

\* C12: entry chain.  Every entry that records balances satisfies
\* newBalance = previousBalance plus its signed amount, and for each wallet
\* the newBalance of an entry is the previousBalance of the wallet's next
\* entry, whatever the interleaving.
C12_EntryChain ==
    /\ \A i \in 1..Len(transactions) :
         transactions[i].hasBal
           => transactions[i].newBalance
                = transactions[i].previousBalance + Signed(transactions[i])
    /\ \A i, j \in 1..Len(transactions) :
         (/\ i < j
          /\ transactions[i].hasBal /\ transactions[j].hasBal
          /\ transactions[i].userId = transactions[j].userId
          /\ \A k \in (i + 1)..(j - 1) :
               ~(transactions[k].hasBal
                   /\ transactions[k].userId = transactions[i].userId))
           => transactions[i].newBalance = transactions[j].previousBalance

\* C13: in the request lifecycle only an approval changes a balance.  A step
\* that creates a request, or that rejects one, leaves every wallet balance
\* unchanged, and a created request is pending.
C13_OnlyApproveMovesBalance ==
    [][ \A r \in ReqIds :
          (\/ ~requests[r].exists /\ requests'[r].exists
           \/ requests[r].status # "rejected" /\ requests'[r].status = "rejected")
            => /\ \A u \in Users : wallets'[u].balance = wallets[u].balance
               /\ (~requests[r].exists => requests'[r].status = "pending") ]_vars

\* C14: transfer rejection.  A transfer goes through (its entries are
\* written) only between two different accounts, for an amount above 0 and
\* at most MAX_TRANSFER, and to a destination wallet whose status is active;
\* otherwise wallets and log stay unchanged.
C14_TransferRejected ==
    [][ (Len(transactions') > Len(transactions)
           /\ transactions'[Len(transactions')].type \in TransferTypes)
        => LET out == transactions'[Len(transactions') - 1]
               inc == transactions'[Len(transactions')]
           IN /\ out.userId # inc.userId
              /\ inc.amount > 0
              /\ inc.amount <= MAX_TRANSFER
              /\ wallets[inc.userId].status = "active" ]_vars

\* C15: admin adjustment keeps the log additive.  Every admin_adjustment
\* entry carries the signed delta change = newBalance - previousBalance and
\* amount = |change|, for add, subtract and set.
C15_AdjustmentDelta ==
    \A i \in 1..Len(transactions) :
        transactions[i].type = "admin_adjustment"
          => LET e == transactions[i]
                 delta == e.newBalance - e.previousBalance
             IN /\ e.change = delta
                /\ e.amount = IF delta < 0 THEN 0 - delta ELSE delta

\* C16: maximum single adjustment.  Every admin adjustment that went
\* through has a magnitude of at most MAX_ADJUSTMENT, in the amount asked
\* for and in the balance change made.
C16_AdjustmentLimit ==
    \A i \in 1..Len(transactions) :
        transactions[i].type = "admin_adjustment"
          => /\ transactions[i].amount <= MAX_ADJUSTMENT
             /\ transactions[i].newBalance - transactions[i].previousBalance
                  <= MAX_ADJUSTMENT
             /\ transactions[i].previousBalance - transactions[i].newBalance
                  <= MAX_ADJUSTMENT

\* C17: no credit to a wallet that is not active.  A step raises a wallet's
\* balance only if the wallet's status is active; otherwise balance and log
\* stay unchanged.
C17_CreditNeedsActive ==
    [][ \A u \in Users :
          (wallets[u].exists /\ wallets'[u].balance > wallets[u].balance)
            => wallets[u].status = "active" ]_vars

\* C18: maximum balance.  No wallet balance ever exceeds the configured
\* maximum balance, DEFAULT_MAX_BALANCE where the wallet sets no limit.
C18_MaxBalance ==
    \A u \in Users : wallets[u].balance <= DEFAULT_MAX_BALANCE

\* C19: the entry log is append-only with unique ids.  No step removes or
\* rewrites an entry already in the log, and no two entries share an id.
C19_AppendOnlyLog ==
    [][ /\ Len(transactions') >= Len(transactions)
        /\ \A i \in 1..Len(transactions) : transactions'[i] = transactions[i]
        /\ \A i, j \in 1..Len(transactions') :
             i # j => transactions'[i].id # transactions'[j].id ]_vars

\* C20: each wallet's version increases by exactly 1 on every successful
\* balance mutation, and a write computed from a stale read of the wallet
\* fails instead of overwriting the newer balance: the adminAdjustBalance call
\* that completes after the balance it read has changed leaves the wallet as
\* it is.
C20_VersionedWrites ==
    [][ /\ \A u \in Users :
             (wallets[u].exists /\ wallets'[u].balance # wallets[u].balance)
               => wallets'[u].version = wallets[u].version + 1
        /\ \A p \in Procs :
             ( /\ calls[p].op = "adminAdjustBalance"
               /\ calls'[p].op = "idle"
               /\ calls[p].bal # wallets[calls[p].user].balance )
               => wallets'[calls[p].user] = wallets[calls[p].user] ]_vars

\* C21: in every mutating transaction body all reads come before any write.
\* No call ends because its transaction issued a read after a write.
C21_ReadsBeforeWrites ==
    last # "ReadAfterWrite"

\* C22: a failure of the notification written after the ledger transaction
\* committed neither rolls the ledger back nor makes the call report failure:
\* the call that completes in a step which changes a wallet reports success.
C22_SideEffectFailureIsSilent ==
    [][ (\E p \in Procs : calls[p].op # "idle" /\ calls'[p].op = "idle"
                          /\ wallets' # wallets)
          => last' = "ok" ]_vars

\* C23: bounded conflict retry.  A mutating call that meets a concurrent
\* change re-runs its read-validate-write sequence from a fresh read of the
\* balance or fails with ConcurrencyConflict: the call that completes with a
\* change of its wallet's balance computed it from the balance the wallet
\* holds at the commit.
C23_RetryFromFreshRead ==
    [][ \A p \in Procs :
          ( /\ calls[p].op # "idle"
            /\ calls'[p].op = "idle"
            /\ wallets'[calls[p].user].balance # wallets[calls[p].user].balance )
            => calls[p].bal = wallets[calls[p].user].balance ]_vars

\* C24: admin gate.  A balance change by an admin operation is committed only
\* for a caller who is signed in, has an existing active admin record and a
\* role of at least the finance level: every admin entry in the log names
\* such a caller, and no entry is written for anyone else.
C24_AdminGate ==
    \A i \in 1..Len(transactions) :
        transactions[i].type = "admin_adjustment"
          => /\ transactions[i].adminId \in AdminIds
             /\ validateAdmin(transactions[i].adminId, "finance") = "ok"

\* C25: a wallet is created once and afterwards changes only through ledger
\* operations.  The write of an auto-creation path (createNewWallet's set)
\* happens only while the wallet does not exist: it never replaces an existing
\* wallet or resets its balance.
C25_CreatedOnce ==
    [][ \A p \in Procs :
          (calls[p].op = "createNewWallet" /\ calls'[p].op # "createNewWallet")
            => ~wallets[calls[p].user].exists ]_vars

\* the total an entry counts towards
TotalOf(e) ==
    CASE e.type = "deposit" -> "totalDeposited"
      [] e.type = "withdrawal" -> "totalWithdrawn"
      [] e.type \in {"game_win", "WIN"} -> "totalWon"
      [] e.type \in {"game_bet", "LOSS"} -> "totalLost"
      [] e.type \in {"send", "transfer_out"} -> "totalTransferred"
      [] e.type \in {"receive", "transfer_in"} -> "totalReceived"
      [] e.type = "transfer" ->
           IF e.subType = "incoming" THEN "totalReceived" ELSE "totalTransferred"
      [] OTHER -> "none"

\* the sum of the amounts of u's completed entries that count towards total
RECURSIVE EntryTotal(_, _, _)
EntryTotal(log, u, total) ==
    IF log = <<>> THEN 0
    ELSE (IF Head(log).userId = u /\ Head(log).status = "completed"
             /\ TotalOf(Head(log)) = total
          THEN Head(log).amount ELSE 0) + EntryTotal(Tail(log), u, total)

\* C26: cached totals are re-derivable from the entry log.  Each total of a
\* wallet equals the sum of the amounts of the wallet's completed entries of
\* the corresponding kind.
C26_TotalsFromLog ==
    \A u \in Users :
        /\ wallets[u].totalDeposited = EntryTotal(transactions, u, "totalDeposited")
        /\ wallets[u].totalWithdrawn = EntryTotal(transactions, u, "totalWithdrawn")
        /\ wallets[u].totalWon = EntryTotal(transactions, u, "totalWon")
        /\ wallets[u].totalLost = EntryTotal(transactions, u, "totalLost")
        /\ wallets[u].totalTransferred = EntryTotal(transactions, u, "totalTransferred")
        /\ wallets[u].totalReceived = EntryTotal(transactions, u, "totalReceived")

\* C27: a cross-tab message is only a cache-invalidation signal.  Whenever a
\* tab's cached balance changes, the new value is the balance of the
\* authoritative wallet record at that moment, never a value carried by a
\* broadcast payload.
C27_CacheFromWalletOnly ==
    [][ \A u \in Users :
          cache'[u] # cache[u] => cache'[u] = wallets'[u].balance ]_vars

\* the number of u's entries of the given type
RECURSIVE CountType(_, _, _)
CountType(log, u, type) ==
    IF log = <<>> THEN 0
    ELSE (IF Head(log).userId = u /\ Head(log).type = type THEN 1 ELSE 0)
         + CountType(Tail(log), u, type)

\* C28: a bet is settled at most once and only after it was debited.  The
\* winnings credited to the player never outnumber the bets placed, also when
\* cashout is invoked again while an earlier cashout awaits the wallet.
C28_SettledAtMostOnce ==
    CountType(transactions, Player, "game_win")
      <= CountType(transactions, Player, "game_bet")

\* C29: at most one bet is outstanding per game instance.  While a game is
\* in progress no further bet is debited and currentBet keeps the stake of
\* the one unsettled bet.
C29_OneOutstandingBet ==
    [][ game.isPlaying
          => /\ CountType(transactions', Player, "game_bet")
                  = CountType(transactions, Player, "game_bet")
             /\ game'.isPlaying => game'.currentBet = game.currentBet ]_vars

\* C30: the result a WalletSystem operation returns matches the ledger.  When
\* deposit, placeBet, creditWinnings or sendMoney returns success, the
\* newBalance of its result is the stored balance of the caller's wallet right
\* after the commit.
C30_ReturnedBalance ==
    [][ (last' = "ok" /\ wallets' # wallets)
          => \E u \in Users : /\ wallets'[u] # wallets[u]
                               /\ returned' = wallets'[u].balance ]_vars

\* C31: stale broadcasts do not win.  A tab's cached balance is never
\* replaced by an older wallet balance than one it already held.  The wallets
\* of SpecBroadcast only receive credits, so an older balance is a smaller
\* one: the cached balance of an existing wallet never decreases.
C31_StaleBroadcastLoses ==
    [][ \A u \in Users : wallets[u].exists => cache'[u] >= cache[u] ]_vars

\* C32: the per-day withdrawal limit.  For every user the amounts of the
\* withdrawals created on one day that are approved sum to at most
\* DAILY_WITHDRAWAL_LIMIT.
C32_DailyWithdrawalLimit ==
    \A u \in Users :
        DailyTotalUpTo(u, Len(requests)) <= DAILY_WITHDRAWAL_LIMIT

\* C33: after a logout the client holds no live wallet state.  While nobody
\* is signed in the tab has no wallet subscription and its cached balance is
\* 0, also when the logout arrived while the login handler was awaiting.
C33_NoStateAfterLogout ==
    client.userId = "none"
      => (~client.walletUnsubscribe /\ cache[Player] = 0)

\* C34: a transaction leaves the pending store only when the ledger has
\* received it: whenever the pending store shrinks, the ledger has grown by
\* as many entries as were removed.
C34_PendingAppliedOnce ==
    [][ Len(client'.pending) < Len(client.pending)
          => Len(transactions') - Len(transactions)
               = Len(client.pending) - Len(client'.pending) ]_vars

\* C35: the low-balance listeners are called at most once between two
\* checks that find the balance at or above the threshold: no second
\* notification while the balance stays low.
C35_LowBalanceOnTransition ==
    client.lowAlerts <= 1

\* C36: registration is all-or-nothing.  Once no registerUser call is in
\* flight for a user, an auth account of that user has a wallet; and the
\* step in which registerUser writes the wallet does not change a wallet
\* document that exists.
C36_RegistrationAllOrNothing ==
    /\ [](\A u \in authUsers :
            (\A p \in Procs : ~(calls[p].user = u /\ calls[p].op \in
                                  {"registerUser", "registerSetDoc"}))
              => wallets[u].exists)
    /\ [][ \A p \in Procs :
             (calls[p].op = "registerSetDoc" /\ wallets[calls[p].user].exists)
               => wallets'[calls[p].user] = wallets[calls[p].user] ]_vars

SetupOps == {"onUserAuthenticated", "setupListenersWithRetry"}

\* C37: the listener setup is retried at most maxRetryAttempts times, each
\* retry after a longer delay than the one before, and a setup ends with the
\* failure report only after the last retry; each client instance holds at
\* most one live wallet snapshot subscription.
C37_BoundedListenerRetry ==
    /\ [](\A p \in Procs : calls[p].retryCount <= maxRetryAttempts)
    /\ [](client.balanceSubs <= 1 /\ client.pubBalanceSubs <= 1)
    /\ [][ \A p \in Procs :
             calls[p].op \in SetupOps =>
               \/ calls'[p] = calls[p]
               \/ /\ calls'[p].op = calls[p].op
                  /\ calls'[p].retryCount = calls[p].retryCount + 1
                  /\ calls'[p].delay > calls[p].delay
               \/ /\ calls'[p].op = "idle"
                  /\ last' \in {"ok", "LISTENER_SETUP_FAILED", "connection_error"}
                  /\ last' # "ok" => calls[p].retryCount = maxRetryAttempts ]_vars

\* a setup has failed for the last time after all its retries, and the
\* instance holds the one subscription of its last attempt
C37_Witness ==
    /\ last = "LISTENER_SETUP_FAILED"
    /\ client.unsubscribeBalance
    /\ client.balanceSubs = 1

\* every handler of the model; the properties above are verified under the
\* family specifications, whose state spaces can be explored exhaustively
Next == WalletSystemNext \/ GamesNext \/ FnNext \/ FixedNext \/ PubNext

Spec == Init /\ [][Next]_vars

====
